---- MODULE Spec2Model ----
(***************************************************************************)
(* Low-Latency-101: the static scoring engine (LatencyAnalyzer and the     *)
(* language detectors), the risk aggregator and release gate, and the      *)
(* worker that runs one job (single snippet or repository scan).           *)
(*                                                                         *)
(* A source snippet is a text the model never spells out.  It is stood for *)
(* by what the program reads from it: the syntax tree ast.parse returns    *)
(* (or the fact that it raises), the set of regular expressions that       *)
(* re.search finds in it, and the findings the external linter reports.    *)
(***************************************************************************)
EXTENDS Integers, Sequences, FiniteSets, TLC

VARIABLES
    env,           \* the engine's surroundings: the rule files, the external linter
    analyzer,      \* the LatencyAnalyzer instance: its language and rules
    first,         \* the first analyze call made on the instance, with its result
    last,          \* the latest analyze call made on the instance, with its result
    riskCall,      \* the latest direct call of the risk aggregator, with its result
    job,           \* the job record of the job run_one is running
    phase,         \* run_one's position
    scan,          \* the locals of run_one and of _analyze_github_repo
    repo,          \* what the repository collaborator holds and answers
    redis,         \* the job hashes and the list queue:jobs
    procs          \* the API requests and the workers: positions and locals

engineVars == <<env, analyzer, first, last>>
workerVars == <<job, phase, scan, repo>>
vars == <<env, analyzer, first, last, riskCall, job, phase, scan, repo, redis, procs>>

(***************************************************************************)
(* Python values                                                           *)
(***************************************************************************)
None == [isNone |-> TRUE]

\* dict.get(key, default)
Get(d, k, default) == IF k \in DOMAIN d THEN d[k] ELSE default

\* sum(...) over a sequence of integers
RECURSIVE SumSeq(_)
SumSeq(s) == IF s = <<>> THEN 0 ELSE Head(s) + SumSeq(Tail(s))

\* list.extend / list concatenation of a sequence of lists
RECURSIVE Concat(_)
Concat(ss) == IF ss = <<>> THEN <<>> ELSE Head(ss) \o Concat(Tail(ss))

Max(a, b) == IF a >= b THEN a ELSE b
Min(a, b) == IF a <= b THEN a ELSE b

\* str.lower() followed by str.strip(), on the labels the model uses
LowerStrip(s) ==
    CASE s = "Python" -> "python"
      [] s = "Java" -> "java"
      [] s = "C++" -> "c++"
      [] s = "CXX" -> "cxx"
      [] s = "Detector" -> "detector"
      [] s = " regex " -> "regex"
      [] s = "Semgrep" -> "semgrep"
      [] s = "MAJOR" -> "major"
      [] s = " minor " -> "minor"
      [] s = "Info" -> "info"
      [] s = " " -> ""
      [] OTHER -> s

\* str.upper(), on the severities of the external linter
Upper(s) ==
    CASE s = "info" -> "INFO"
      [] s = "warning" -> "WARNING"
      [] s = "error" -> "ERROR"
      [] OTHER -> s

(***************************************************************************)
(* Syntax trees (the ast module)                                           *)
(***************************************************************************)
Name(id) == [type |-> "Name", id |-> id]
Attribute(value, attr) == [type |-> "Attribute", value |-> value, attr |-> attr]
Call(func, args) == [type |-> "Call", func |-> func, args |-> args]
Expr(value) == [type |-> "Expr", value |-> value]
For(iter, body) == [type |-> "For", target |-> Name("i"), iter |-> iter, body |-> body]
While(test, body) == [type |-> "While", test |-> test, body |-> body]
Assign(value) == [type |-> "Assign", targets |-> <<Name("x")>>, value |-> value]
AugAssign(target, op, value) ==
    [type |-> "AugAssign", target |-> target, op |-> op, value |-> value]
Literal(type) == [type |-> type]
Module(body) == [type |-> "Module", body |-> body]
SyntaxError == [type |-> "SyntaxError"]

\* ast.iter_child_nodes: the child nodes in field order.  Expression contexts
\* and operator nodes are left out: no visitor is defined for them and they
\* have no children.
iter_child_nodes(node) ==
    CASE node.type = "Module" -> node.body
      [] node.type \in {"For", "AsyncFor"} -> <<node.target, node.iter>> \o node.body
      [] node.type = "While" -> <<node.test>> \o node.body
      [] node.type = "Expr" -> <<node.value>>
      [] node.type = "Call" -> <<node.func>> \o node.args
      [] node.type = "Attribute" -> <<node.value>>
      [] node.type = "Assign" -> node.targets \o <<node.value>>
      [] node.type = "AugAssign" -> <<node.target, node.value>>
      [] OTHER -> <<>>

(***************************************************************************)
(* PythonDetector                                                          *)
(***************************************************************************)
DetectorResult == [issues |-> <<>>, positive_signals |-> <<>>]

_issue(res, rule, message, penalty) ==
    [res EXCEPT !.issues = @ \o <<[rule |-> rule, message |-> message, penalty |-> penalty]>>]

PyPositivePatterns ==
    << [pat |-> "import uvloop", label |-> "uvloop event loop (fast asyncio)"],
       [pat |-> "import numpy", label |-> "NumPy (vectorized ops)"],
       [pat |-> "from numba import jit", label |-> "Numba JIT accelerators"],
       [pat |-> "from multiprocessing import shared_memory", label |-> "Shared memory (zero-copy IPC)"],
       [pat |-> "import mmap", label |-> "mmap (file-backed memory)"],
       [pat |-> "from collections import deque", label |-> "collections.deque (amortized O(1))"],
       [pat |-> "import selectors", label |-> "selectors (efficient I/O multiplexing)"] >>

\* re.search(pat, text): the snippet carries the set of patterns found in it
re_search(pat, code) == pat \in code.matches

\* the labels of the entries of a (pattern, label) table found in the code, in table order
RECURSIVE MatchedLabels(_, _)
MatchedLabels(table, code) ==
    IF table = <<>> THEN <<>>
    ELSE (IF re_search(Head(table).pat, code) THEN <<Head(table).label>> ELSE <<>>)
         \o MatchedLabels(Tail(table), code)

_scan_imports_for_positive_signals(res, code) ==
    [res EXCEPT !.positive_signals = @ \o MatchedLabels(PyPositivePatterns, code)]

LoopTypes == {"For", "While", "AsyncFor"}

\* only the node's own parent is looked at
_in_loop_parent_only(parents) == parents # <<>> /\ parents[1] \in LoopTypes

\* parents: the types of the node's ancestors, the nearest first
_in_loop(parents) == \E i \in 1..Len(parents) : parents[i] \in LoopTypes

\* the attribute names of a chain of Attribute nodes, the outermost first,
\* ended by the identifier when the chain ends in a Name
RECURSIVE QualParts(_)
QualParts(cur) ==
    IF cur.type = "Attribute" THEN <<cur.attr>> \o QualParts(cur.value)
    ELSE IF cur.type = "Name" THEN <<cur.id>>
    ELSE <<>>

\* ".".join(reversed(parts))
RECURSIVE JoinReversed(_)
JoinReversed(parts) ==
    IF parts = <<>> THEN ""
    ELSE IF Len(parts) = 1 THEN parts[1]
    ELSE JoinReversed(Tail(parts)) \o "." \o Head(parts)

_qualname(node) ==
    IF node.type = "Name" THEN node.id
    ELSE IF node.type = "Attribute" THEN JoinReversed(QualParts(node))
    ELSE ""

HotLoopCalls ==
    {"print", "logging.debug", "logging.info", "logging.warning", "logging.error",
     "logging.critical", "time.sleep", "subprocess.run", "subprocess.Popen", "os.system",
     "json.dumps", "json.loads", "re.compile", "open", "requests.get", "requests.post"}

positive_by_call(func_name) ==
    CASE func_name = "numpy.array" -> "NumPy arrays used"
      [] func_name = "numpy.frombuffer" -> "Zero-copy NumPy frombuffer"
      [] func_name = "memoryview" -> "memoryview for zero-copy slicing"
      [] func_name = "bytearray" -> "bytearray for mutable bytes"
      [] func_name = "selectors.DefaultSelector" -> "Using selectors for I/O multiplexing"
      [] func_name = "asyncio.get_running_loop" -> "AsyncIO event loop in use"
      [] OTHER -> ""

\* the regex-compile issue takes the place of the generic one
visit_Call_specific_only(res, node, parents) ==
    LET func_name == _qualname(node.func)
        in_loop == _in_loop(parents)
        r1 == IF in_loop /\ func_name = "re.compile"
              THEN _issue(res, "Regex compile in loop",
                          "Move re.compile outside the loop and reuse the pattern.", 10)
              ELSE IF in_loop /\ func_name \in HotLoopCalls
              THEN _issue(res, "Call to " \o func_name \o " in hot loop",
                          "Avoid calling " \o func_name \o " inside loops. Batch or hoist outside.", 8)
              ELSE res
    IN  IF positive_by_call(func_name) # ""
        THEN [r1 EXCEPT !.positive_signals = @ \o <<positive_by_call(func_name)>>]
        ELSE r1

\* the part of visit_Call before generic_visit
visit_Call(res, node, parents) ==
    LET func_name == _qualname(node.func)
        in_loop == _in_loop(parents)
        r1 == IF in_loop /\ func_name \in HotLoopCalls
              THEN _issue(res, "Call to " \o func_name \o " in hot loop",
                          "Avoid calling " \o func_name \o " inside loops. Batch or hoist outside.", 8)
              ELSE res
        r2 == IF in_loop /\ func_name = "re.compile"
              THEN _issue(r1, "Regex compile in loop",
                          "Move re.compile outside the loop and reuse the pattern.", 10)
              ELSE r1
    IN  IF positive_by_call(func_name) # ""
        THEN [r2 EXCEPT !.positive_signals = @ \o <<positive_by_call(func_name)>>]
        ELSE r2

\* the part of visit_Assign before generic_visit
visit_Assign(res, node, parents) ==
    IF _in_loop(parents) /\ node.value.type \in {"List", "Set", "Dict"}
    THEN _issue(res, "Container allocation inside loop",
                "Avoid allocating lists/sets/dicts in loops; reuse or preallocate.", 7)
    ELSE res

\* the part of visit_AugAssign before generic_visit
visit_AugAssign(res, node, parents) ==
    IF /\ _in_loop(parents)
       /\ node.op = "Add"
       /\ node.target.type = "Name"
       /\ node.value.type \in {"Str", "JoinedStr"}
    THEN _issue(res, "String concatenation in loop",
                "Use list-join or io.StringIO for building strings in loops.", 6)
    ELSE res

\* NodeVisitor.visit: the visitor of the node's type, then generic_visit,
\* which visits the children in order with this node as their parent
RECURSIVE visit(_, _, _)
RECURSIVE VisitAll(_, _, _)
visit(res, node, parents) ==
    LET own == CASE node.type = "Call" -> visit_Call(res, node, parents)
                 [] node.type = "Assign" -> visit_Assign(res, node, parents)
                 [] node.type = "AugAssign" -> visit_AugAssign(res, node, parents)
                 [] OTHER -> res
    IN  VisitAll(own, iter_child_nodes(node), <<node.type>> \o parents)

VisitAll(res, nodes, parents) ==
    IF nodes = <<>> THEN res
    ELSE VisitAll(visit(res, Head(nodes), parents), Tail(nodes), parents)

_regex_fallback(res, code) ==
    IF re_search("print(", code)
    THEN _issue(res, "print usage", "Printing can be slow in hot paths.", 4)
    ELSE res

\* a snippet that does not parse gives the import signals alone
PythonDetectorWithoutFallback(code) ==
    LET res == _scan_imports_for_positive_signals(DetectorResult, code)
    IN  IF code.ast # SyntaxError THEN visit(res, code.ast, <<>>) ELSE res

\* PythonDetector(code).analyze(): a fresh result per detector
PythonDetector(code) ==
    LET res == _scan_imports_for_positive_signals(DetectorResult, code)
    IN  IF code.ast # SyntaxError
        THEN visit(res, code.ast, <<>>)
        ELSE _regex_fallback(res, code)

(***************************************************************************)
(* JavaDetector and CppDetector                                            *)
(***************************************************************************)
JavaPositiveImports ==
    << [pat |-> "import com.lmax.disruptor", label |-> "LMAX Disruptor (ring buffer)"],
       [pat |-> "import org.agrona", label |-> "Agrona (low-latency primitives)"],
       [pat |-> "import io.aeron", label |-> "Aeron (media driver / IPC)"],
       [pat |-> "import net.openhft.chronicle", label |-> "Chronicle (zero-GC queues/map)"],
       [pat |-> "import io.netty", label |-> "Netty (event-driven NIO)"],
       [pat |-> "import org.openjdk.jmh", label |-> "JMH (microbenchmarking)"] >>

JavaNegativePatterns ==
    << [pat |-> "System.out.println(", penalty |-> 12,
        msg |-> "Avoid System.out in hot paths; buffer or disable."],
       [pat |-> "new T(...);", penalty |-> 8,
        msg |-> "Object allocation may pressure GC; consider reuse/pooling."],
       [pat |-> "synchronized(", penalty |-> 10,
        msg |-> "Synchronization in hot paths can throttle throughput."],
       [pat |-> "String + x", penalty |-> 6,
        msg |-> "String concatenation; prefer StringBuilder."],
       [pat |-> "Thread.sleep(", penalty |-> 8,
        msg |-> "Sleeping in critical paths adds latency."] >>

JavaPositiveCalls ==
    << [pat |-> "LongAdder", label |-> "LongAdder (reduced contention counter)"],
       [pat |-> "VarHandle", label |-> "VarHandle (low-level memory ops)"],
       [pat |-> "ByteBuffer.allocateDirect", label |-> "Direct ByteBuffer (off-heap)"],
       [pat |-> "Epoll|KQueue", label |-> "Native transport (epoll/kqueue)"] >>

\* one issue per occurrence, each pattern found taken to occur twice
RECURSIVE MatchedIssuesPerOccurrence(_, _, _)
MatchedIssuesPerOccurrence(table, code, rule) ==
    IF table = <<>> THEN <<>>
    ELSE (IF re_search(Head(table).pat, code)
          THEN <<[rule |-> rule, message |-> Head(table).msg, penalty |-> Head(table).penalty],
                 [rule |-> rule, message |-> Head(table).msg, penalty |-> Head(table).penalty]>>
          ELSE <<>>)
         \o MatchedIssuesPerOccurrence(Tail(table), code, rule)

\* one issue per negative pattern found in the code, in table order
RECURSIVE MatchedIssues(_, _, _)
MatchedIssues(table, code, rule) ==
    IF table = <<>> THEN <<>>
    ELSE (IF re_search(Head(table).pat, code)
          THEN <<[rule |-> rule, message |-> Head(table).msg, penalty |-> Head(table).penalty]>>
          ELSE <<>>)
         \o MatchedIssues(Tail(table), code, rule)

JavaDetector(code) ==
    [issues |-> MatchedIssues(JavaNegativePatterns, code, "Java pattern"),
     positive_signals |-> MatchedLabels(JavaPositiveImports, code)
                          \o MatchedLabels(JavaPositiveCalls, code)]

CppPositiveIncludes ==
    << [pat |-> "#include <boost/lockfree/", label |-> "Boost lockfree structures"],
       [pat |-> "#include <folly/", label |-> "Facebook Folly performance primitives"],
       [pat |-> "#include <absl/", label |-> "Abseil containers/arenas"],
       [pat |-> "#include <memory_resource>", label |-> "std::pmr polymorphic allocators"] >>

CppNegativePatterns ==
    << [pat |-> "std::cout <<", penalty |-> 12,
        msg |-> "std::cout in hot paths causes I/O stalls."],
       [pat |-> "new T(|malloc(", penalty |-> 10,
        msg |-> "Dynamic allocation in loops increases latency/fragmentation."],
       [pat |-> "std::shared_ptr<", penalty |-> 6,
        msg |-> "shared_ptr has atomic refcount; avoid in hot loops."],
       [pat |-> "std::function<", penalty |-> 6,
        msg |-> "std::function type erasure incurs overhead; avoid in loops."],
       [pat |-> "virtual f(", penalty |-> 4,
        msg |-> "Virtual dispatch in hot loops can hurt branch prediction."] >>

CppDetector(code) ==
    [issues |-> MatchedIssues(CppNegativePatterns, code, "C++ pattern"),
     positive_signals |-> MatchedLabels(CppPositiveIncludes, code)]

(***************************************************************************)
(* The external linter (semgrep_provider.run_semgrep)                      *)
(***************************************************************************)
sev_to_pen(sev) ==
    CASE sev = "INFO" -> 3
      [] sev = "WARNING" -> 6
      [] sev = "ERROR" -> 10
      [] OTHER -> 5

RECURSIVE SemgrepIssues(_)
SemgrepIssues(results) ==
    IF results = <<>> THEN <<>>
    ELSE LET r == Head(results)
             sev == Upper(Get(r, "severity", "INFO"))
         IN  <<[rule |-> Get(r, "check_id", "semgrep-rule"),
                message |-> Get(r, "message", "Semgrep finding"),
                penalty |-> sev_to_pen(sev)]>> \o SemgrepIssues(Tail(results))

\* tool: "available" when the binary and the rules directory are found and the
\* run ends with JSON output; code.sg: the results the tool reports for the code
run_semgrep(tool, code) ==
    IF tool # "available" THEN None
    ELSE [issues |-> SemgrepIssues(code.sg)]

(***************************************************************************)
(* LatencyAnalyzer                                                         *)
(***************************************************************************)
\* the rule file name load_rules opens for a language label
RuleFileKey(lang) ==
    LET lname == LowerStrip(lang)
    IN  IF lname \in {"c++", "cxx"} THEN "cpp" ELSE lname

\* LatencyAnalyzer(language): files is the content of the rule files
LatencyAnalyzer(language, files) ==
    [language |-> language, rules |-> files[RuleFileKey(language)]]

\* one default pipeline for every language
PipelineTokensOneDefault(lang, pipelineEnv) ==
    IF pipelineEnv = None THEN <<"detector", "regex">> ELSE pipelineEnv.tokens

\* os.getenv("LATENCY_PIPELINE", default_pipeline), split at "+" and ","
PipelineTokens(lang, pipelineEnv) ==
    IF pipelineEnv = None
    THEN (IF lang = "python" THEN <<"detector">> ELSE <<"detector", "regex">>)
    ELSE pipelineEnv.tokens

RECURSIVE StripTokens(_)
StripTokens(tokens) ==
    IF tokens = <<>> THEN <<>>
    ELSE (IF LowerStrip(Head(tokens)) # "" THEN <<LowerStrip(Head(tokens))>> ELSE <<>>)
         \o StripTokens(Tail(tokens))

Steps(lang, pipelineEnv) == StripTokens(PipelineTokens(lang, pipelineEnv))

InSeq(x, s) == \E i \in 1..Len(s) : s[i] = x

\* the locals of analyze at its start
AnalyzeLocalsKept == IF last = None
                     THEN [issues |-> <<>>, positive_signals |-> <<>>, score |-> 100]
                     ELSE [issues |-> last.result.issues,
                           positive_signals |-> last.result.signals.positive,
                           score |-> 100]
AnalyzeLocals == [issues |-> <<>>, positive_signals |-> <<>>, score |-> 100]

\* for it in found: score -= penalty; issues.append({rule, message, penalty})
RECURSIVE AppendIssues(_, _, _)
AppendIssuesNoPenalty(st, found, defaultRule) ==
    [st EXCEPT !.issues = @ \o found]
AppendIssuesAdded(st, found, defaultRule) ==
    [st EXCEPT !.issues = @ \o [i \in 1..Len(found) |->
                                   [rule |-> Get(found[i], "rule", defaultRule),
                                    message |-> Get(found[i], "message", ""),
                                    penalty |-> Get(found[i], "penalty", 0)]],
               !.score = @ + SumSeq([i \in 1..Len(found) |-> Get(found[i], "penalty", 0)])]
AppendIssues(st, found, defaultRule) ==
    IF found = <<>> THEN st
    ELSE LET it == Head(found)
             penalty == Get(it, "penalty", 0)
         IN  AppendIssues(
                 [st EXCEPT !.score = @ - penalty,
                            !.issues = @ \o <<[rule |-> Get(it, "rule", defaultRule),
                                               message |-> Get(it, "message", ""),
                                               penalty |-> penalty]>>],
                 Tail(found), defaultRule)

SemgrepStage(st, self, tool, code) ==
    LET sg == run_semgrep(tool, code)
    IN  IF sg = None THEN st
        ELSE AppendIssues(st, Get(sg, "issues", <<>>), "Semgrep finding")

\* the detector of the language, None for a language without one
Detect(lang, code) ==
    CASE lang = "python" -> PythonDetector(code)
      [] lang = "java" -> JavaDetector(code)
      [] lang \in {"c++", "cpp", "cxx"} -> CppDetector(code)
      [] OTHER -> None

DetectorStage(st, self, tool, code) ==
    LET detector_res == Detect(LowerStrip(self.language), code)
    IN  IF detector_res = None THEN st
        ELSE [AppendIssues(st, detector_res.issues, "Detector finding")
                EXCEPT !.positive_signals = @ \o detector_res.positive_signals]

\* re.compile of the rule's pattern succeeds
ValidPattern(pat) == pat # "("

\* the rules found up to the first rule whose pattern raises re.error
RECURSIVE MatchedRulesUntilError(_, _)
MatchedRulesUntilError(rules, code) ==
    IF rules = <<>> \/ ~ValidPattern(Head(rules).pattern) THEN <<>>
    ELSE (IF re_search(Head(rules).pattern, code)
          THEN <<[rule |-> Get(Head(rules), "rule", "Pattern match"),
                  message |-> Get(Head(rules), "message", "Matched rule pattern."),
                  penalty |-> Get(Head(rules), "penalty", 0)]>>
          ELSE <<>>)
         \o MatchedRulesUntilError(Tail(rules), code)

\* the rules whose pattern is found in the code; a rule whose pattern raises
\* re.error is passed over
RECURSIVE MatchedRules(_, _)
MatchedRules(rules, code) ==
    IF rules = <<>> THEN <<>>
    ELSE (IF ValidPattern(Head(rules).pattern) /\ re_search(Head(rules).pattern, code)
          THEN <<[rule |-> Get(Head(rules), "rule", "Pattern match"),
                  message |-> Get(Head(rules), "message", "Matched rule pattern."),
                  penalty |-> Get(Head(rules), "penalty", 0)]>>
          ELSE <<>>)
         \o MatchedRules(Tail(rules), code)

RegexStage(st, self, tool, code) ==
    AppendIssues(st, MatchedRules(self.rules, code), "Pattern match")

RunStage(name, st, self, tool, code) ==
    CASE name = "semgrep" -> SemgrepStage(st, self, tool, code)
      [] name = "detector" -> DetectorStage(st, self, tool, code)
      [] name = "regex" -> RegexStage(st, self, tool, code)
      [] OTHER -> st

\* the stages analyze runs, in the order it runs them
RECURSIVE Dedup(_)
Dedup(s) ==
    IF s = <<>> THEN <<>>
    ELSE LET front == Dedup(SubSeq(s, 1, Len(s) - 1))
         IN  IF InSeq(s[Len(s)], front) THEN front ELSE front \o <<s[Len(s)]>>
StagesRunAsConfigured(steps) == Dedup(steps)
StagesRun(steps) ==
    SelectSeq(<<"semgrep", "detector", "regex">>, LAMBDA name : InSeq(name, steps))

RECURSIVE RunStages(_, _, _, _, _)
RunStages(names, st, self, tool, code) ==
    IF names = <<>> THEN st
    ELSE RunStages(Tail(names), RunStage(Head(names), st, self, tool, code), self, tool, code)

\* "score": max(score, 0)
FinalScoreUnclamped(score) == score
FinalScore(score) == Max(score, 0)

\* LatencyAnalyzer.analyze(code) under the environment (pipelineEnv, tool)
analyze(self, pipelineEnv, tool, code) ==
    LET lang == LowerStrip(self.language)
        steps == Steps(lang, pipelineEnv)
        st == RunStages(StagesRun(steps), AnalyzeLocals, self, tool, code)
    IN  [issues |-> st.issues,
         score |-> FinalScore(st.score),
         signals |-> [positive |-> st.positive_signals]]

(***************************************************************************)
(* The risk aggregator and the release gate (worker.py)                    *)
(***************************************************************************)
\* the explicit label is read first; the penalty decides only without one
_severity_from_issue_by_penalty(issue) ==
    LET penalty == Get(issue, "penalty", 0)
    IN  IF penalty >= 10 THEN "major"
        ELSE IF penalty >= 6 THEN "minor"
        ELSE "info"
_severity_from_issue(issue) ==
    LET sev == LowerStrip(Get(issue, "severity", ""))
        penalty == Get(issue, "penalty", 0)
    IN  IF sev \in {"major", "minor"} THEN sev
        ELSE IF penalty >= 10 THEN "major"
        ELSE IF penalty >= 6 THEN "minor"
        ELSE "info"

\* the points of the static issues, summed in list order
RECURSIVE StaticPoints(_)
StaticPoints(static_issues) ==
    IF static_issues = <<>> THEN 0
    ELSE LET sev == _severity_from_issue(Head(static_issues))
         IN  (IF sev = "major" THEN 20 ELSE IF sev = "minor" THEN 10 ELSE 5)
             + StaticPoints(Tail(static_issues))

\* gpt_results and gpt_results.get(key): the list under key, empty when absent
GptList(gpt_results, key) ==
    IF gpt_results = None THEN <<>> ELSE Get(gpt_results, key, <<>>)

RawRisk(static_results, gpt_results) ==
    StaticPoints(IF static_results = None THEN <<>> ELSE Get(static_results, "issues", <<>>))
    + 20 * Len(GptList(gpt_results, "major_issues"))
    + 10 * Len(GptList(gpt_results, "minor_issues"))

compute_risk_unclamped(static_results, gpt_results) == RawRisk(static_results, gpt_results)
compute_risk(static_results, gpt_results) == Min(RawRisk(static_results, gpt_results), 100)

_gate_for_risk_strict(risk_score) ==
    IF risk_score > 70 THEN "FAIL"
    ELSE IF risk_score > 35 THEN "WARN"
    ELSE "PASS"
_gate_for_risk(risk_score) ==
    IF risk_score >= 70 THEN "FAIL"
    ELSE IF risk_score >= 35 THEN "WARN"
    ELSE "PASS"

\* risk = compute_risk(static_out, gpt_out); gate = _gate_for_risk(risk):
\* the verdict fields of the result of _analyze_inline_code
InlineVerdict(static_out, gpt_out) ==
    LET risk == compute_risk(static_out, gpt_out)
    IN  [source |-> "code", gate |-> _gate_for_risk(risk), risk_score |-> risk]

\* the verdict fields of the result of _analyze_github_repo
RepoVerdict(combined_static, combined_gpt) ==
    LET risk_score == compute_risk(combined_static, combined_gpt)
    IN  [source |-> "github", gate |-> _gate_for_risk(risk_score), risk_score |-> risk_score]

(***************************************************************************)
(* The engine called: one LatencyAnalyzer instance, analyze called on it   *)
(* again and again.                                                        *)
(***************************************************************************)
MaxRules == 2

RulePool ==
    { [pattern |-> "R1", rule |-> "Rule one", message |-> "First rule matched.", penalty |-> 60],
      [pattern |-> "R2", penalty |-> 45],
      [pattern |-> "(", rule |-> "Broken rule", message |-> "Never matched.", penalty |-> 30] }

\* the lists of at most n members of S
RECURSIVE ListsUpTo(_, _)
ListsUpTo(S, n) ==
    IF n = 0 THEN {<<>>}
    ELSE LET shorter == ListsUpTo(S, n - 1)
         IN  shorter \cup {Append(s, x) : s \in {t \in shorter : Len(t) = n - 1}, x \in S}

\* a rule file: a list of different rules
RuleLists == {s \in ListsUpTo(RulePool, MaxRules) : \A i, j \in 1..Len(s) : i # j => s[i] # s[j]}

LanguageLabels == {"Python", "java", "C++"}

ToolStates == {"available", "unavailable"}

Pipelines ==
    { None,
      [tokens |-> <<"detector">>],
      [tokens |-> <<"detector", "regex">>],
      [tokens |-> <<"regex", "detector">>],
      [tokens |-> <<"Semgrep", " regex ", " ", "Detector">>],
      [tokens |-> <<"detector", "semgrep", "lint", "regex">>] }

Snippet(ast, matches, sg) == [ast |-> ast, matches |-> matches, sg |-> sg]

\* for i in range(n): print(i)
PyPrintLoop ==
    Module(<< For(Call(Name("range"), <<Name("n")>>),
                  <<Expr(Call(Name("print"), <<Name("i")>>))>>) >>)

\* for x in y: re.compile(p)
PyCompileLoop ==
    Module(<< For(Name("y"),
                  <<Expr(Call(Attribute(Name("re"), "compile"), <<Name("p")>>))>>) >>)

\* import numpy
\* while go(): x = []; s += "a"; numpy.array(x)
\* print(s)
PyAllocLoop ==
    Module(<< While(Call(Name("go"), <<>>),
                    << Assign(Literal("List")),
                       AugAssign(Name("s"), "Add", Literal("Str")),
                       Expr(Call(Attribute(Name("numpy"), "array"), <<Name("x")>>)) >>),
              Expr(Call(Name("print"), <<Name("s")>>)) >>)

PythonSnippets ==
    { Snippet(PyPrintLoop, {"print("}, <<>>),
      Snippet(PyCompileLoop, {"R1"}, <<[check_id |-> "py.compile", severity |-> "warning"]>>),
      Snippet(PyAllocLoop, {"import numpy", "print(", "R2"}, <<>>),
      Snippet(SyntaxError, {"print(", "import numpy", "R1", "R2"},
              <<[check_id |-> "py.parse", severity |-> "ERROR"], [message |-> "note"]>>) }

JavaSnippets ==
    { Snippet(SyntaxError,
              {"System.out.println(", "new T(...);", "synchronized(", "String + x",
               "Thread.sleep(", "import io.netty", "LongAdder", "R1"},
              <<[check_id |-> "java.sync", severity |-> "error"]>>),
      Snippet(SyntaxError, {"System.out.println(", "R1", "R2"}, <<>>),
      Snippet(SyntaxError, {"Thread.sleep(", "synchronized(", "R2"},
              <<[check_id |-> "java.sleep", severity |-> "INFO"], [check_id |-> "java.x", severity |-> "note"]>>) }

CppSnippets ==
    { Snippet(SyntaxError, {"std::cout <<", "#include <folly/", "R1"}, <<>>),
      Snippet(SyntaxError,
              {"std::cout <<", "new T(|malloc(", "std::shared_ptr<", "std::function<",
               "virtual f(", "R1", "R2"},
              <<[check_id |-> "cpp.alloc", severity |-> "WARNING"]>>),
      Snippet(SyntaxError, {}, <<[check_id |-> "cpp.style"]>>) }

Snippets(language) ==
    CASE LowerStrip(language) = "python" -> PythonSnippets
      [] LowerStrip(language) = "java" -> JavaSnippets
      [] OTHER -> CppSnippets

InitRiskIdle == riskCall = None
InitQueueIdle == redis = None /\ procs = None
InitWorkerIdle == job = None /\ phase = "idle" /\ scan = None /\ repo = None

InitEngine ==
    /\ InitQueueIdle
    /\ \E rules \in RuleLists, tool \in ToolStates :
           env = [files |-> [k \in {"python", "java", "cpp"} |-> rules], semgrep |-> tool]
    /\ \E language \in LanguageLabels : analyzer = LatencyAnalyzer(language, env.files)
    /\ first = None
    /\ last = None
    /\ InitRiskIdle
    /\ InitWorkerIdle

\* static_out = analyzer.analyze(code), with LATENCY_PIPELINE read at the call.
\* first.others: a call for another snippet was made on the instance since.
Analyze(code, pipelineEnv) ==
    LET call == [code |-> code,
                 pipeline |-> pipelineEnv,
                 steps |-> Steps(LowerStrip(analyzer.language), pipelineEnv),
                 result |-> analyze(analyzer, pipelineEnv, env.semgrep, code),
                 others |-> FALSE]
    IN  /\ last' = call
        /\ first' = IF first = None THEN last'
                    ELSE [first EXCEPT !.others = @ \/ code # first.code]
        /\ UNCHANGED <<env, analyzer, riskCall, job, phase, scan, repo, redis, procs>>

NextEngine ==
    \E code \in Snippets(analyzer.language), pipelineEnv \in Pipelines : Analyze(code, pipelineEnv)

SpecEngine == InitEngine /\ [][NextEngine]_vars

(***************************************************************************)
(* Properties of the engine                                                *)
(***************************************************************************)
RECURSIVE PenaltySum(_)
PenaltySum(issues) ==
    IF issues = <<>> THEN 0 ELSE Head(issues).penalty + PenaltySum(Tail(issues))

\* the issues a stage reports for the latest call's snippet, on its own
StageIssues(name, call) ==
    RunStage(name, [issues |-> <<>>, positive_signals |-> <<>>, score |-> 100],
             analyzer, env.semgrep, call.code).issues

RECURSIVE StageIssuesOf(_, _)
StageIssuesOf(names, call) ==
    IF names = <<>> THEN <<>>
    ELSE StageIssues(Head(names), call) \o StageIssuesOf(Tail(names), call)

Occurrences(x, s) == Cardinality({i \in 1..Len(s) : s[i] = x})

\* the same stage names, in any order
SameStageNames(s, t) ==
    /\ Len(s) = Len(t)
    /\ \A i \in 1..Len(s) : Occurrences(s[i], s) = Occurrences(s[i], t)

\* C1: the score analyze returns is between 0 and 100, for every rule list
\* (of non-negative penalties), snippet and pipeline configuration.
C1_ScoreBound ==
    last # None => last.result.score \in 0..100

\* C1 witness: the penalties of the issues found add up to more than 100 and
\* the score returned is 0.
C1_Witness ==
    /\ last # None
    /\ PenaltySum(last.result.issues) > 100
    /\ last.result.score = 0

\* C2: the score is max(0, 100 - S), S the sum of the penalties of the issues
\* returned, which are the issues of every stage named, each kept as an entry
\* of its own; and two calls for the same snippet under configurations that
\* name the same stages in different orders return the same score.
C2_ScoreIsClampedSum ==
    /\ last # None =>
          /\ last.result.score = Max(0, 100 - PenaltySum(last.result.issues))
          /\ Len(last.result.issues) =
                 SumSeq([i \in 1..3 |->
                            IF InSeq(<<"semgrep", "detector", "regex">>[i], last.steps)
                            THEN Len(StageIssues(<<"semgrep", "detector", "regex">>[i], last))
                            ELSE 0])
    /\ (first # None /\ first.code = last.code /\ SameStageNames(first.steps, last.steps))
          => first.result.score = last.result.score

\* C2 witness: the same snippet analysed under two orderings of the same stage
\* names, with issues from two stages and a score strictly between 0 and 100.
C2_Witness ==
    /\ first # None
    /\ first.code = last.code
    /\ first.steps # last.steps
    /\ SameStageNames(first.steps, last.steps)
    /\ StageIssues("detector", last) # <<>>
    /\ StageIssues("regex", last) # <<>>
    /\ last.result.score \in 1..99

\* C6 as claimed: the issue list is the concatenation of the stages' issues in
\* the order in which the configuration names the stages.
C6_IssuesInConfiguredOrder ==
    last # None => last.result.issues = StageIssuesOf(Dedup(last.steps), last)

\* C6 amended: the stages named in the configuration run in the fixed order
\* semgrep, detector, regex, whatever the order of the names, and the issue
\* list is the concatenation of their issues in that fixed order.
C6_IssuesInFixedOrder ==
    last # None =>
        last.result.issues =
            StageIssuesOf(SelectSeq(<<"semgrep", "detector", "regex">>,
                                    LAMBDA name : InSeq(name, last.steps)), last)

\* C6 witness: under the configuration regex+detector, with issues from both
\* stages, the detector's issues come first.
C6_Witness ==
    /\ last # None
    /\ last.steps = <<"regex", "detector">>
    /\ StageIssues("detector", last) # <<>>
    /\ StageIssues("regex", last) # <<>>
    /\ last.result.issues = StageIssues("detector", last) \o StageIssues("regex", last)

MaxIssues == 3
MaxLlmIssues == 3
RiskCeiling == 100

IssueSeverities == {"minor", "MAJOR", " minor ", "info"}
IssuePenalties == {5, 6, 9, 10}

\* static issues: without a severity (as analyze returns them), with one, and
\* without a penalty
IssuePool ==
    {[rule |-> "r", message |-> "m", penalty |-> p] : p \in IssuePenalties}
    \cup {[rule |-> "r", message |-> "m", penalty |-> p, severity |-> v] :
             p \in IssuePenalties, v \in IssueSeverities}
    \cup {[rule |-> "r", message |-> "m"]}

\* the issues the lists of a static result are made of
ListedIssues ==
    {i \in IssuePool : \/ "severity" \notin DOMAIN i /\ Get(i, "penalty", 10) \in {5, 6, 10}
                       \/ "severity" \in DOMAIN i /\ i.penalty = 10 /\ i.severity \in {"minor", "info"}
                       \/ "severity" \in DOMAIN i /\ i.penalty = 5 /\ i.severity = "MAJOR"}

IssueLists == ListsUpTo(ListedIssues, MaxIssues)

StaticResults ==
    {None, [score |-> 100]} \cup {[issues |-> l] : l \in IssueLists}

LlmLists == {[i \in 1..n |-> [issue |-> "llm finding"]] : n \in 0..MaxLlmIssues}

GptResults ==
    {None, [summary |-> "not JSON"]}
    \cup {[summary |-> "", major_issues |-> a, minor_issues |-> b] : a \in LlmLists, b \in LlmLists}

PendingRiskCalls ==
    {[fn |-> "_severity_from_issue", issue |-> i, done |-> FALSE] : i \in IssuePool}
    \cup {[fn |-> "_gate_for_risk", risk_score |-> r, done |-> FALSE] : r \in 0..RiskCeiling}
    \cup {[fn |-> f, static |-> st, gpt |-> g, done |-> FALSE] :
             f \in {"compute_risk", "inline", "github"}, st \in StaticResults, g \in GptResults}

InitEngineIdle ==
    /\ env = None
    /\ analyzer = None
    /\ first = None
    /\ last = None

InitRisk ==
    /\ InitQueueIdle
    /\ riskCall \in PendingRiskCalls
    /\ InitEngineIdle
    /\ InitWorkerIdle

Pending(fn) == riskCall.fn = fn /\ ~riskCall.done

Return(out) ==
    /\ riskCall' = [fn |-> riskCall.fn, args |-> riskCall, done |-> TRUE, out |-> out]
    /\ UNCHANGED <<env, analyzer, first, last, job, phase, scan, repo, redis, procs>>

CallSeverity == Pending("_severity_from_issue") /\ Return(_severity_from_issue(riskCall.issue))

CallGate == Pending("_gate_for_risk") /\ Return(_gate_for_risk(riskCall.risk_score))

CallComputeRisk == Pending("compute_risk") /\ Return(compute_risk(riskCall.static, riskCall.gpt))

CallInlineVerdict == Pending("inline") /\ Return(InlineVerdict(riskCall.static, riskCall.gpt))

CallRepoVerdict == Pending("github") /\ Return(RepoVerdict(riskCall.static, riskCall.gpt))

NextRisk ==
    \/ CallSeverity
    \/ CallGate
    \/ CallComputeRisk
    \/ CallInlineVerdict
    \/ CallRepoVerdict

SpecRisk == InitRisk /\ [][NextRisk]_vars

Returned(fn) == riskCall.fn = fn /\ riskCall.done

\* the gate the claim gives for a risk score
ClaimedGate(risk) ==
    CASE risk >= 70 -> "FAIL"
      [] risk >= 35 /\ risk < 70 -> "WARN"
      [] risk < 35 -> "PASS"

\* C3: the gate is FAIL from 70, WARN from 35 to 69 and PASS below 35 (34 is
\* PASS, 35 WARN, 69 WARN, 70 FAIL), and the gate of a job result, of a
\* snippet or of a repository scan, is that function of its risk_score.
C3_GateOfRisk ==
    /\ Returned("_gate_for_risk") =>
          /\ riskCall.out = ClaimedGate(riskCall.args.risk_score)
          /\ riskCall.args.risk_score = 34 => riskCall.out = "PASS"
          /\ riskCall.args.risk_score = 35 => riskCall.out = "WARN"
          /\ riskCall.args.risk_score = 69 => riskCall.out = "WARN"
          /\ riskCall.args.risk_score = 70 => riskCall.out = "FAIL"
    /\ (Returned("inline") \/ Returned("github")) =>
          /\ riskCall.out.risk_score = compute_risk(riskCall.args.static, riskCall.args.gpt)
          /\ riskCall.out.gate = ClaimedGate(riskCall.out.risk_score)

\* C3 witness: a repository scan's result whose risk score is exactly 70 and
\* whose gate is FAIL.
C3_Witness ==
    /\ Returned("github")
    /\ riskCall.out.risk_score = 70
    /\ riskCall.out.gate = "FAIL"

\* the number of static issues of a derived severity
CountSeverity(static, sev) ==
    LET issues == IF static = None THEN <<>> ELSE Get(static, "issues", <<>>)
    IN  Cardinality({i \in 1..Len(issues) : _severity_from_issue(issues[i]) = sev})

\* C4: compute_risk returns min(100, 20*M + 10*m + 5*i + 20*LM + 10*Lm); an
\* argument that is None or lacks its lists counts as empty, so
\* compute_risk(None, None) = 0; the result is an integer of 0..100.
C4_ComputeRisk ==
    Returned("compute_risk") =>
        LET static == riskCall.args.static
            gpt == riskCall.args.gpt
            LM == IF gpt = None \/ "major_issues" \notin DOMAIN gpt THEN 0 ELSE Len(gpt.major_issues)
            Lm == IF gpt = None \/ "minor_issues" \notin DOMAIN gpt THEN 0 ELSE Len(gpt.minor_issues)
        IN  /\ riskCall.out = Min(100, 20 * CountSeverity(static, "major")
                                       + 10 * CountSeverity(static, "minor")
                                       + 5 * CountSeverity(static, "info")
                                       + 20 * LM + 10 * Lm)
            /\ riskCall.out \in 0..100
            /\ (static = None /\ gpt = None) => riskCall.out = 0

\* C4 witness: static issues and LLM findings whose points add up to more
\* than 100, and the result 100.
C4_Witness ==
    /\ Returned("compute_risk")
    /\ riskCall.args.static # None
    /\ CountSeverity(riskCall.args.static, "major") > 0
    /\ CountSeverity(riskCall.args.static, "info") > 0
    /\ RawRisk(riskCall.args.static, riskCall.args.gpt) > 100
    /\ riskCall.out = 100

\* C5 as claimed: major if the explicit severity is major or the penalty is at
\* least 10; otherwise minor if the penalty is at least 6; otherwise info.
C5_SeverityAsClaimed ==
    Returned("_severity_from_issue") =>
        LET issue == riskCall.args.issue
            explicit == LowerStrip(Get(issue, "severity", ""))
            penalty == Get(issue, "penalty", 0)
        IN  riskCall.out = IF explicit = "major" \/ penalty >= 10 THEN "major"
                           ELSE IF penalty >= 6 THEN "minor"
                           ELSE "info"

\* C5 amended: the derived severity is the explicit severity when that is
\* major or minor; only otherwise is it major from penalty 10, minor from
\* penalty 6 and info below.  An issue of penalty 10 or more with the explicit
\* severity minor counts as minor: 10 risk points, not 20.
C5_SeverityExplicitFirst ==
    /\ Returned("_severity_from_issue") =>
          LET issue == riskCall.args.issue
              explicit == LowerStrip(Get(issue, "severity", ""))
              penalty == Get(issue, "penalty", 0)
          IN  riskCall.out = IF explicit \in {"major", "minor"} THEN explicit
                             ELSE IF penalty >= 10 THEN "major"
                             ELSE IF penalty >= 6 THEN "minor"
                             ELSE "info"
    /\ (/\ Returned("compute_risk")
        /\ riskCall.args.gpt = None
        /\ riskCall.args.static # None
        /\ "issues" \in DOMAIN riskCall.args.static
        /\ Len(riskCall.args.static.issues) = 1) =>
          LET issue == riskCall.args.static.issues[1]
              explicit == LowerStrip(Get(issue, "severity", ""))
              penalty == Get(issue, "penalty", 0)
          IN  riskCall.out = IF explicit = "major" THEN 20
                             ELSE IF explicit = "minor" THEN 10
                             ELSE IF penalty >= 10 THEN 20
                             ELSE IF penalty >= 6 THEN 10
                             ELSE 5

\* C5 witness: an issue of penalty 10 with the explicit severity minor, whose
\* derived severity is minor.
C5_Witness ==
    /\ Returned("_severity_from_issue")
    /\ Get(riskCall.args.issue, "penalty", 0) >= 10
    /\ LowerStrip(Get(riskCall.args.issue, "severity", "")) = "minor"
    /\ riskCall.out = "minor"

(***************************************************************************)
(* The repository collaborator (mcp/github/server.py)                      *)
(*                                                                         *)
(* A blob is stood for by its size in bytes, whether it holds a NUL byte,  *)
(* its text, and the text left when it is cut short.                       *)
(***************************************************************************)
\* a text that str.strip() leaves empty
EmptyText == [ast |-> Module(<<>>), matches |-> {}, sg |-> <<>>, blank |-> TRUE]

\* list_repo_tree: the blobs of the tree, as the GitHub API lists them
list_repo_tree(world) ==
    [repo |-> "o/r",
     file_count |-> Len(world.tree),
     files |-> [i \in 1..Len(world.tree) |->
                   [path |-> world.tree[i], size |-> world.blobs[world.tree[i]].size]]]

\* get_file: the blob cut to max_bytes, and its text unless it is binary
get_file(blobs, path, max_bytes) ==
    LET blob == blobs[path]
        bytes_returned == IF max_bytes > 0 /\ blob.size > max_bytes THEN max_bytes ELSE blob.size
    IN  [path |-> path,
         content |-> IF blob.binary THEN EmptyText
                     ELSE IF bytes_returned < blob.size THEN blob.clipped
                     ELSE blob.text,
         is_binary |-> blob.binary,
         truncated |-> blob.size > bytes_returned,
         bytes_returned |-> bytes_returned]

(***************************************************************************)
(* The LLM collaborator (gpt_review.py) as the worker sees it: the string  *)
(* query_llm_with_code returns is either a text that is no JSON (the error *)
(* marker) or the JSON text of a normalized object.                        *)
(***************************************************************************)
LlmErrorMarker == [text |-> "Network error contacting LLM"]

\* the fallback query_llm_with_code wraps around a reply that is no JSON
LlmFallback ==
    [json |-> [summary |-> "raw reply", no_changes |-> FALSE, clean_findings |-> <<>>,
               minor_issues |-> <<>>, major_issues |-> <<>>, rewritten |-> "",
               confidence |-> 0]]

\* a review with findings; a finding is an object or a plain string
LlmFindings ==
    [json |-> [summary |-> "allocation in the hot path", no_changes |-> FALSE,
               clean_findings |-> <<[str |-> "no locks"]>>,
               minor_issues |-> <<[str |-> "string built in a loop"]>>,
               major_issues |-> <<[issue |-> "lock taken per message", fix |-> "hoist the lock"]>>,
               rewritten |-> "", confidence |-> 80]]

\* a review that reports one finding twice as major and once more as minor
LlmRepeats ==
    [json |-> [summary |-> "allocation everywhere", no_changes |-> FALSE,
               clean_findings |-> <<>>,
               minor_issues |-> <<[str |-> "allocation per call"], [issue |-> "branchy parser"]>>,
               major_issues |-> <<[str |-> "allocation per call"], [str |-> "allocation per call"]>>,
               rewritten |-> "", confidence |-> 40]]

LlmAnswers == {LlmErrorMarker, LlmFallback, LlmFindings, LlmRepeats}

(***************************************************************************)
(* The worker (services/worker/worker.py)                                  *)
(***************************************************************************)
DEFAULT_MAX_FILES == 30
DEFAULT_GPT_HOTSPOTS == 3
MaxGptItems == 10

MAX_TOTAL_FETCH_BYTES == env.GITHUB_MAX_TOTAL_BYTES
MAX_FILE_FETCH_BYTES == env.GITHUB_MAX_FILE_BYTES

EXT_TO_LANGUAGE ==
    (".py" :> "python") @@ (".java" :> "java") @@ (".cpp" :> "c++") @@ (".cc" :> "c++")
    @@ (".cxx" :> "c++") @@ (".hpp" :> "c++") @@ (".hh" :> "c++") @@ (".h" :> "c++")

\* the paths the model uses, in the order sorted() gives them
PathTable == <<"README.md", "a.py", "b.py", "c.cpp", "d.java", "e.h", "f.py", "gone.py">>

\* path[path.rfind("."):].lower()
_extension(path) ==
    CASE path \in {"a.py", "b.py", "f.py", "gone.py"} -> ".py"
      [] path = "c.cpp" -> ".cpp"
      [] path = "d.java" -> ".java"
      [] path = "e.h" -> ".h"
      [] path = "README.md" -> ".md"
      [] OTHER -> ""

\* EXT_TO_LANGUAGE.get(_extension(path))
_language_for_path(path) ==
    IF _extension(path) \in DOMAIN EXT_TO_LANGUAGE
    THEN [language |-> EXT_TO_LANGUAGE[_extension(path)]]
    ELSE None

\* every path of the model lies in the repository's root directory
_path_in_scope(path, scope_paths) ==
    scope_paths = <<>> \/ \E i \in 1..Len(scope_paths) : path = scope_paths[i]

_path_has_extension(path, extensions) ==
    extensions = <<>> \/ \E i \in 1..Len(extensions) : _extension(path) = extensions[i]

\* str.lower() on the status labels the model uses
Lower(s) ==
    CASE s = "Removed" -> "removed"
      [] s = "Java" -> "java"
      [] OTHER -> s

\* sorted(set(paths))
SortedSet(paths) == SelectSeq(PathTable, LAMBDA p : InSeq(p, paths))

\* r.hset(key, mapping=...)
hset(hash, mapping) ==
    [k \in DOMAIN hash \cup DOMAIN mapping |-> IF k \in DOMAIN mapping THEN mapping[k] ELSE hash[k]]

\* a text that is no JSON gives a result without summary
_normalize_gpt_result_json_only(raw) ==
    LET parsed == IF "json" \in DOMAIN raw THEN raw.json ELSE [confidence |-> 0]
    IN  [summary |-> Get(parsed, "summary", ""),
         no_changes |-> Get(parsed, "no_changes", FALSE),
         clean_findings |-> Get(parsed, "clean_findings", <<>>),
         minor_issues |-> Get(parsed, "minor_issues", <<>>),
         major_issues |-> Get(parsed, "major_issues", <<>>),
         rewritten |-> Get(parsed, "rewritten", ""),
         confidence |-> Get(parsed, "confidence", 0)]

_normalize_gpt_result(raw) ==
    LET parsed == IF "json" \in DOMAIN raw THEN raw.json ELSE [summary |-> raw.text]
    IN  [summary |-> Get(parsed, "summary", ""),
         no_changes |-> Get(parsed, "no_changes", FALSE),
         clean_findings |-> Get(parsed, "clean_findings", <<>>),
         minor_issues |-> Get(parsed, "minor_issues", <<>>),
         major_issues |-> Get(parsed, "major_issues", <<>>),
         rewritten |-> Get(parsed, "rewritten", ""),
         confidence |-> Get(parsed, "confidence", 0)]

_file_risk_points(issue_count, major_count, minor_count) ==
    major_count * 20 + minor_count * 10 + Max(issue_count - major_count - minor_count, 0) * 5

\* len([i for i in issues if _severity_from_issue(i) == sev])
SeverityCount(issues, sev) ==
    Cardinality({i \in 1..Len(issues) : _severity_from_issue(issues[i]) = sev})

MaxTopActions == 8

\* str.strip() on the texts of the findings
Strip(text) == IF text = " " THEN "" ELSE text

\* the action text of one LLM finding, "" when it gives none: a finding is an
\* object with issue, fix and file, or a plain string
FindingAction(item) ==
    IF "str" \in DOMAIN item THEN Strip(item.str)
    ELSE LET issue == Strip(Get(item, "issue", ""))
             fix == Strip(Get(item, "fix", ""))
             file_path == Strip(Get(item, "file", ""))
             msg == IF fix = "" THEN issue ELSE issue \o " -> " \o fix
         IN  IF file_path # "" THEN file_path \o ": " \o msg ELSE msg

\* the first loop of _build_top_actions: every major finding
RECURSIVE MajorActions(_, _)
MajorActions(items, actions) ==
    IF items = <<>> THEN actions
    ELSE MajorActions(Tail(items),
                      IF FindingAction(Head(items)) # ""
                      THEN Append(actions, FindingAction(Head(items))) ELSE actions)

\* the second loop: the minor findings, while fewer than 8 actions are held
RECURSIVE MinorActions(_, _)
MinorActions(items, actions) ==
    IF items = <<>> \/ Len(actions) >= MaxTopActions THEN actions
    ELSE MinorActions(Tail(items),
                      IF FindingAction(Head(items)) # ""
                      THEN Append(actions, FindingAction(Head(items))) ELSE actions)

\* the info issues are listed as well
RECURSIVE FileActionsOfAll(_, _, _)
FileActionsOfAll(path, issues, actions) ==
    IF issues = <<>> \/ Len(actions) >= MaxTopActions THEN actions
    ELSE FileActionsOfAll(path, Tail(issues),
                          Append(actions, path \o ": "
                                          \o Get(Head(issues), "message", Get(Head(issues), "rule", "Issue"))))

\* the inner loop of the third: the major and minor static issues of one file
RECURSIVE FileActions(_, _, _)
FileActions(path, issues, actions) ==
    IF issues = <<>> \/ Len(actions) >= MaxTopActions THEN actions
    ELSE LET issue == Head(issues)
             msg == path \o ": " \o Get(issue, "message", Get(issue, "rule", "Issue"))
         IN  FileActions(path, Tail(issues),
                         IF _severity_from_issue(issue) \in {"major", "minor"}
                         THEN Append(actions, msg) ELSE actions)

\* the third loop: the files in the order given
RECURSIVE StaticActions(_, _)
StaticActions(file_results, actions) ==
    IF file_results = <<>> \/ Len(actions) >= MaxTopActions THEN actions
    ELSE StaticActions(Tail(file_results),
                       FileActions(Head(file_results).path,
                                   Get(Get(Head(file_results), "static", <<>>), "issues", <<>>),
                                   actions))

\* a list as long as _build_top_actions returns
TopSlice(deduped) == SubSeq(deduped, 1, Min(MaxTopActions, Len(deduped)))

_build_top_actions(file_results, global_gpt) ==
    LET majors == MajorActions(Get(global_gpt, "major_issues", <<>>), <<>>)
        minors == MinorActions(Get(global_gpt, "minor_issues", <<>>), majors)
        actions == IF Len(minors) < MaxTopActions THEN StaticActions(file_results, minors) ELSE minors
    IN  TopSlice(Dedup(actions))

\* the result of _analyze_inline_code
_analyze_inline_code(language, code, mode, context, runbook, llm_answer) ==
    LET inline_analyzer == LatencyAnalyzer(language, env.files)
        static_out == analyze(inline_analyzer, env.LATENCY_PIPELINE, env.semgrep, code)
        gpt_out == _normalize_gpt_result(llm_answer)
    IN  hset(InlineVerdict(static_out, gpt_out),
             [mode |-> mode,
              runbook_rules_loaded |-> Len(Get(runbook, "rules", <<>>)),
              hotspots |-> <<[path |-> "snippet", language |-> language,
                              issue_count |-> Len(static_out.issues),
                              major_count |-> SeverityCount(static_out.issues, "major"),
                              minor_count |-> SeverityCount(static_out.issues, "minor")]>>,
              top_actions |-> _build_top_actions(<<[path |-> "snippet", static |-> static_out]>>, gpt_out),
              files |-> <<[path |-> "snippet", language |-> language,
                           static |-> static_out, gpt |-> gpt_out]>>,
              static |-> static_out,
              gpt |-> gpt_out,
              context |-> context])

\* the candidate paths and the selected files of _select_repo_files; changed
\* is the collaborator's answer to /repo/changed_files
_select_repo_files(tree_files, changed, scope_paths, extensions, max_files, base_ref, head_ref) ==
    LET kept == SelectSeq(Get(changed, "changed_files", <<>>),
                          LAMBDA item : Lower(Get(item, "status", "")) # "removed")
        candidate_paths ==
            IF base_ref # "" /\ head_ref # ""
            THEN [i \in 1..Len(kept) |-> kept[i].filename]
            ELSE [i \in 1..Len(tree_files) |-> tree_files[i].path]
        filtered ==
            SortedSet(SelectSeq(candidate_paths,
                                LAMBDA path : /\ path # ""
                                              /\ _path_in_scope(path, scope_paths)
                                              /\ _path_has_extension(path, extensions)
                                              /\ _language_for_path(path) # None))
    IN  [selected_files |-> IF max_files > 0
                            THEN SubSeq(filtered, 1, Min(max_files, Len(filtered)))
                            ELSE filtered,
         candidate_count |-> Len(candidate_paths)]

\* bucket after _aggregate_gpt_issue_items(items, path, bucket, max_items)
RECURSIVE _aggregate_gpt_issue_items(_, _, _, _)
_aggregate_gpt_issue_items(items, path, bucket, max_items) ==
    IF items = <<>> \/ Len(bucket) >= max_items THEN bucket
    ELSE LET item == Head(items)
             enriched == IF "str" \in DOMAIN item
                         THEN [file |-> path, issue |-> item.str]
                         ELSE hset(item, [file |-> path])
         IN  _aggregate_gpt_issue_items(Tail(items), path, Append(bucket, enriched), max_items)

\* gpt_clean after the clean findings of one hotspot are added
RECURSIVE AddCleanFindings(_, _, _)
AddCleanFindings(items, path, gpt_clean) ==
    IF items = <<>> \/ Len(gpt_clean) >= MaxGptItems THEN gpt_clean
    ELSE LET item == Head(items)
             entry == IF "str" \in DOMAIN item THEN [str |-> path \o ": " \o item.str] ELSE item
         IN  AddCleanFindings(Tail(items), path, Append(gpt_clean, entry))

\* per_file_cap = min(MAX_FILE_FETCH_BYTES, max(MAX_TOTAL_FETCH_BYTES - total_bytes, 0))
per_file_cap_of_file_budget(total_bytes) == MAX_FILE_FETCH_BYTES
per_file_cap_short_by_one(total_bytes) ==
    Min(MAX_FILE_FETCH_BYTES, Max(MAX_TOTAL_FETCH_BYTES - total_bytes - 1, 0))
per_file_cap(total_bytes) ==
    Min(MAX_FILE_FETCH_BYTES, Max(MAX_TOTAL_FETCH_BYTES - total_bytes, 0))

\* the issue as it goes into global_issues: tagged with its file and a severity
EnrichedIssue(issue, path) ==
    LET tagged == hset(issue, [file |-> path])
    IN  IF Get(tagged, "severity", "") = ""
        THEN hset(tagged, [severity |-> _severity_from_issue(tagged)])
        ELSE tagged

\* the locals with the bytes asked for charged to the budget as well
FetchFailedCharged(sc, path, cap) ==
    [sc EXCEPT !.skipped_files = Append(@, [path |-> path, reason |-> "fetch_failed: " \o "request failed"]),
               !.total_bytes = @ + cap]

\* a failed fetch that leaves no record of the file
FetchFailedUnrecorded(sc, path, cap) == sc

\* except Exception as exc: the file is recorded as skipped, the loop goes on
FetchFailed(sc, path, cap) ==
    [sc EXCEPT !.skipped_files = Append(@, [path |-> path, reason |-> "fetch_failed: " \o "request failed"])]

\* the locals of _analyze_github_repo after the loop body has run for the next
\* selected file; fetch_ok: the collaborator answers the /repo/file request
ScanStep(sc, fetch_ok) ==
    LET path == sc.selected_files[sc.next]
        advanced == [sc EXCEPT !.next = @ + 1]
        Skipped(reason) ==
            [advanced EXCEPT !.skipped_files = Append(@, [path |-> path, reason |-> reason])]
        cap == per_file_cap(sc.total_bytes)
        file_payload == get_file(repo.blobs, path, cap)
        fetched == [advanced EXCEPT !.fetches = Append(@, [path |-> path, max_bytes |-> cap,
                                                           bytes_returned |-> file_payload.bytes_returned])]
        FetchedSkipped(reason) ==
            [fetched EXCEPT !.skipped_files = Append(@, [path |-> path, reason |-> reason])]
        content == file_payload.content
        language == _language_for_path(path)
        file_analyzer == IF language.language \in DOMAIN sc.analyzer_cache
                         THEN sc.analyzer_cache[language.language]
                         ELSE LatencyAnalyzer(language.language, env.files)
        static_out == analyze(file_analyzer, env.LATENCY_PIPELINE, env.semgrep, content)
        issue_count == Len(static_out.issues)
        major_count == SeverityCount(static_out.issues, "major")
        minor_count == SeverityCount(static_out.issues, "minor")
        file_entry ==
            [path |-> path,
             language |-> language.language,
             bytes |-> file_payload.bytes_returned,
             truncated |-> file_payload.truncated,
             issue_count |-> issue_count,
             major_count |-> major_count,
             minor_count |-> minor_count,
             risk_points |-> _file_risk_points(issue_count, major_count, minor_count),
             static |-> static_out,
             gpt |-> None,
             _content |-> content]
    IN  IF sc.total_bytes >= MAX_TOTAL_FETCH_BYTES THEN Skipped("total_byte_cap_reached")
        ELSE IF cap <= 0 THEN Skipped("byte_budget_exhausted")
        ELSE IF ~fetch_ok THEN FetchFailed(advanced, path, cap)
        ELSE IF file_payload.is_binary THEN FetchedSkipped("binary")
        ELSE IF "blank" \in DOMAIN content THEN FetchedSkipped("empty")
        ELSE IF language = None THEN FetchedSkipped("unsupported_extension")
        ELSE [fetched EXCEPT
                 !.analyzer_cache = (language.language :> file_analyzer) @@ @,
                 !.global_issues = @ \o [i \in 1..issue_count |-> EnrichedIssue(static_out.issues[i], path)],
                 !.global_positive = @ \o static_out.signals.positive,
                 !.file_results = Append(@, file_entry),
                 !.total_bytes = @ + file_payload.bytes_returned]

\* file_results.sort(key=risk_points, reverse=True): a stable sort
RECURSIVE InsertBeforeLower(_, _)
InsertBeforeLower(entry, sorted) ==
    IF sorted = <<>> THEN <<entry>>
    ELSE IF Head(sorted).risk_points < entry.risk_points THEN <<entry>> \o sorted
    ELSE <<Head(sorted)>> \o InsertBeforeLower(entry, Tail(sorted))

RECURSIVE InsertBeforeLowerOrEqual(_, _)
InsertBeforeLowerOrEqual(entry, sorted) ==
    IF sorted = <<>> THEN <<entry>>
    ELSE IF Head(sorted).risk_points <= entry.risk_points THEN <<entry>> \o sorted
    ELSE <<Head(sorted)>> \o InsertBeforeLowerOrEqual(entry, Tail(sorted))

RECURSIVE SortedByRiskPointsTiesReversed(_)
SortedByRiskPointsTiesReversed(file_results) ==
    IF file_results = <<>> THEN <<>>
    ELSE InsertBeforeLower(Head(file_results), SortedByRiskPointsTiesReversed(Tail(file_results)))

RECURSIVE SortedByRiskPoints(_)
SortedByRiskPoints(file_results) ==
    IF file_results = <<>> THEN <<>>
    ELSE InsertBeforeLowerOrEqual(Head(file_results), SortedByRiskPoints(Tail(file_results)))

\* "score": max(0, 100 - min(sum(penalties), 100))
\* the positive-signal labels of the detectors, in the order of str comparison
LabelTable ==
    << "Abseil containers/arenas", "Aeron (media driver / IPC)", "Agrona (low-latency primitives)",
       "AsyncIO event loop in use", "Boost lockfree structures", "Chronicle (zero-GC queues/map)",
       "Direct ByteBuffer (off-heap)", "Facebook Folly performance primitives", "JMH (microbenchmarking)",
       "LMAX Disruptor (ring buffer)", "LongAdder (reduced contention counter)",
       "Native transport (epoll/kqueue)", "Netty (event-driven NIO)", "NumPy (vectorized ops)",
       "NumPy arrays used", "Numba JIT accelerators", "Shared memory (zero-copy IPC)",
       "Using selectors for I/O multiplexing", "VarHandle (low-level memory ops)",
       "Zero-copy NumPy frombuffer", "bytearray for mutable bytes", "collections.deque (amortized O(1))",
       "memoryview for zero-copy slicing", "mmap (file-backed memory)",
       "selectors (efficient I/O multiplexing)", "std::pmr polymorphic allocators",
       "uvloop event loop (fast asyncio)" >>

\* the labels as collected, file after file
CollectedLabels(labels) == labels

\* sorted(set(global_positive))
SortedLabels(labels) == SelectSeq(LabelTable, LAMBDA label : InSeq(label, labels))

CombinedScore(global_issues) ==
    Max(0, 100 - Min(SumSeq([i \in 1..Len(global_issues) |-> Get(global_issues[i], "penalty", 0)]), 100))

\* the result _analyze_github_repo returns from its locals
RepoResult(sc, mode, context, runbook) ==
    LET combined_static ==
            [issues |-> sc.global_issues,
             score |-> CombinedScore(sc.global_issues),
             signals |-> [positive |-> SortedLabels(sc.global_positive)]]
        combined_gpt ==
            [summary |-> "Scanned " \o ToString(Len(sc.file_results)) \o " files from "
                         \o Get(sc.tree, "repo", sc.repo_url) \o " @ " \o sc.ref
                         \o ". Detected " \o ToString(Len(sc.global_issues)) \o " static issues.",
             no_changes |-> Len(sc.global_issues) = 0 /\ sc.gpt_major = <<>> /\ sc.gpt_minor = <<>>,
             clean_findings |-> sc.gpt_clean,
             minor_issues |-> sc.gpt_minor,
             major_issues |-> sc.gpt_major,
             rewritten |-> "",
             confidence |-> IF sc.file_results # <<>> THEN 65 ELSE 0]
        Public(item) == [k \in DOMAIN item \ {"_content"} |-> item[k]]
    IN  hset(RepoVerdict(combined_static, combined_gpt),
             [mode |-> mode,
              runbook_rules_loaded |-> Len(Get(runbook, "rules", <<>>)),
              hotspots |-> [i \in 1..Len(sc.file_results) |->
                               [k \in {"path", "language", "issue_count", "major_count",
                                       "minor_count", "risk_points"} |-> sc.file_results[i][k]]],
              top_actions |-> _build_top_actions(sc.file_results, combined_gpt),
              files |-> [i \in 1..Len(sc.file_results) |-> Public(sc.file_results[i])],
              static |-> combined_static,
              gpt |-> combined_gpt,
              github |-> [repo_url |-> sc.repo_url,
                          ref |-> sc.ref,
                          tree_file_count |-> Get(sc.tree, "file_count", 0),
                          candidate_file_count |-> sc.candidate_count,
                          selected_file_count |-> Len(sc.selected_files),
                          analyzed_file_count |-> Len(sc.file_results),
                          fetched_bytes |-> sc.total_bytes,
                          skipped_files |-> sc.skipped_files],
              context |-> context])

(***************************************************************************)
(* One job run: run_one from the job record in Redis to the status it      *)
(* writes back, with the collaborators answering or failing at each call.  *)
(***************************************************************************)
MaxTotalBytes == 5
MaxFileBytes == 3
MaxTreeFiles == 3

RuleOf(pattern) == CHOOSE rule \in RulePool : rule.pattern = pattern

RuleFiles ==
    [python |-> <<RuleOf("R1")>>, java |-> <<RuleOf("R2")>>, cpp |-> <<RuleOf("R1"), RuleOf("(")>>]

\* the worker's surroundings: rule files, linter, pipeline and byte budgets
WorkerEnv(pipeline, file_bytes) ==
    [files |-> RuleFiles,
     semgrep |-> "unavailable",
     LATENCY_PIPELINE |-> pipeline,
     GITHUB_MAX_TOTAL_BYTES |-> MaxTotalBytes,
     GITHUB_MAX_FILE_BYTES |-> file_bytes]

WorkerEnvs ==
    { WorkerEnv(None, MaxFileBytes),
      WorkerEnv([tokens |-> <<"semgrep", "detector", "regex">>], MaxFileBytes),
      WorkerEnv(None, 0),
      [WorkerEnv(None, MaxFileBytes) EXCEPT !.GITHUB_MAX_TOTAL_BYTES = MaxFileBytes] }

\* the blobs of the repository
RepoBlobs ==
    ("README.md" :> [size |-> 1, binary |-> FALSE,
                     text |-> Snippet(SyntaxError, {}, <<>>),
                     clipped |-> Snippet(SyntaxError, {}, <<>>)])
    @@ ("a.py" :> [size |-> 2, binary |-> FALSE,
                   text |-> Snippet(PyPrintLoop, {"print(", "import numpy"}, <<>>),
                   clipped |-> Snippet(SyntaxError, {}, <<>>)])
    @@ ("b.py" :> [size |-> 2, binary |-> FALSE,
                   text |-> Snippet(PyPrintLoop, {"print(", "import numpy", "R1"}, <<>>),
                   clipped |-> Snippet(SyntaxError, {}, <<>>)])
    @@ ("c.cpp" :> [size |-> 3, binary |-> FALSE,
                    text |-> Snippet(SyntaxError, {"std::cout <<", "virtual f(", "#include <folly/", "R1"}, <<>>),
                    clipped |-> Snippet(SyntaxError, {"#include <folly/"}, <<>>)])
    @@ ("d.java" :> [size |-> 4, binary |-> FALSE,
                     text |-> Snippet(SyntaxError, {"System.out.println(", "Thread.sleep(", "R2"}, <<>>),
                     clipped |-> Snippet(SyntaxError, {"System.out.println(", "R2"}, <<>>)])
    @@ ("e.h" :> [size |-> 2, binary |-> TRUE, text |-> EmptyText, clipped |-> EmptyText])
    @@ ("f.py" :> [size |-> 1, binary |-> FALSE, text |-> EmptyText, clipped |-> EmptyText])

\* a repository: some of the blobs, listed by descending path, and the
\* collaborator's answer to /repo/changed_files
RepoOf(paths) ==
    LET listed == SelectSeq([i \in 1..Len(PathTable) |-> PathTable[Len(PathTable) + 1 - i]],
                            LAMBDA p : p \in paths)
    IN  [tree |-> listed,
         blobs |-> RepoBlobs,
         changed |-> [changed_files |->
                         <<[filename |-> "gone.py", status |-> "Removed"]>>
                         \o [i \in 1..(Len(listed) - 1) |->
                                [filename |-> listed[i + 1], status |-> "modified"]]]]

RepoWorlds ==
    {RepoOf(paths) : paths \in {t \in SUBSET DOMAIN RepoBlobs : Cardinality(t) <= MaxTreeFiles}}

QueuedJob(language, code, context) ==
    [status |-> "queued", language |-> language, code |-> code,
     mode |-> "release_readiness", context |-> context]

InlineJobs ==
    {QueuedJob(language, code, [source |-> "code"]) :
        language \in {"Python"}, code \in PythonSnippets}
    \cup {QueuedJob("java", code, [source |-> "code"]) : code \in JavaSnippets}
    \cup {QueuedJob("c++", code, [source |-> "code"]) : code \in CppSnippets}
    \cup {QueuedJob("ruby", EmptyText, [source |-> "code"])}

GithubContexts ==
    {[source |-> "github", repo_url |-> ""]}
    \cup {[source |-> "github", repo_url |-> "o/r"]}
    \cup {[source |-> "github", repo_url |-> "o/r", gpt_hotspots |-> k] : k \in 0..2}
    \cup {[source |-> "github", repo_url |-> "o/r", gpt_hotspots |-> 1,
           base_ref |-> "v1", head_ref |-> "v2"]}
    \cup {[source |-> "github", repo_url |-> "o/r", gpt_hotspots |-> 1, max_files |-> 2]}

GithubJobs == {QueuedJob("python", EmptyText, context) : context \in GithubContexts}

InitRunOne ==
    /\ InitQueueIdle
    /\ env \in WorkerEnvs
    /\ \/ job \in InlineJobs /\ repo = None
       \/ job \in GithubJobs /\ repo \in RepoWorlds
    /\ phase = "queued"
    /\ scan = None
    /\ analyzer = None
    /\ first = None
    /\ last = None
    /\ InitRiskIdle

\* run_one's except branch: the job is written as failed
Raise(exc) ==
    /\ job' = hset(job, [status |-> "error", error |-> exc])
    /\ phase' = "finished"
    /\ UNCHANGED scan

\* run_one down to the try block: the status is written, the job record read
StartJob ==
    /\ phase = "queued"
    /\ job' = hset(job, [status |-> "running"])
    /\ scan' = [language |-> LowerStrip(job.language),
                code |-> job.code,
                mode |-> job.mode,
                context |-> job.context]
    /\ phase' = "runbook"
    /\ UNCHANGED <<env, analyzer, first, last, riskCall, repo, redis, procs>>

\* runbook = mcp_get_runbook_rules(), which raises when the request fails
GetRunbook ==
    /\ phase = "runbook"
    /\ \E answered \in BOOLEAN :
          IF ~answered THEN Raise("runbook request failed")
          ELSE /\ scan' = hset(scan, [runbook |-> [rules |-> <<"rule 1", "rule 2">>],
                                      source |-> LowerStrip(Get(scan.context, "source", "code"))])
               /\ phase' = IF LowerStrip(Get(scan.context, "source", "code")) = "github"
                           THEN "repo" ELSE "inline"
               /\ UNCHANGED job
    /\ UNCHANGED <<env, analyzer, first, last, riskCall, repo, redis, procs>>

\* result = _analyze_inline_code(...), written with status done
AnalyzeInline ==
    /\ phase = "inline"
    /\ IF RuleFileKey(scan.language) \notin DOMAIN env.files
       THEN Raise("no rule file")
       ELSE \E llm_answer \in LlmAnswers :
               /\ job' = hset(job, [status |-> "done",
                                    result |-> _analyze_inline_code(scan.language, scan.code, scan.mode,
                                                                    scan.context, scan.runbook, llm_answer)])
               /\ phase' = "finished"
               /\ scan' = hset(scan, [llm_replies |-> <<llm_answer>>])
    /\ UNCHANGED <<env, analyzer, first, last, riskCall, repo, redis, procs>>

\* _analyze_github_repo down to the tree listing
OpenRepo ==
    /\ phase = "repo"
    /\ \E answered \in BOOLEAN :
          IF Get(scan.context, "repo_url", "") = ""
          THEN Raise("context.repo_url is required for GitHub source jobs")
          ELSE IF ~answered THEN Raise("tree request failed")
          ELSE /\ scan' = hset(scan,
                     [repo_url |-> scan.context.repo_url,
                      ref |-> IF Get(scan.context, "ref", "main") = "" THEN "main"
                              ELSE Get(scan.context, "ref", "main"),
                      base_ref |-> Get(scan.context, "base_ref", ""),
                      head_ref |-> Get(scan.context, "head_ref", ""),
                      scope_paths |-> <<>>,
                      extensions |-> <<>>,
                      max_files |-> IF Get(scan.context, "max_files", 0) = 0 THEN DEFAULT_MAX_FILES
                                    ELSE scan.context.max_files,
                      gpt_hotspots |-> Max(0, IF Get(scan.context, "gpt_hotspots", 0) = 0
                                              THEN DEFAULT_GPT_HOTSPOTS
                                              ELSE scan.context.gpt_hotspots),
                      tree |-> list_repo_tree(repo)])
               /\ phase' = "select"
               /\ UNCHANGED job
    /\ UNCHANGED <<env, analyzer, first, last, riskCall, repo, redis, procs>>

\* _select_repo_files, and the locals the file loop starts from
SelectFiles ==
    /\ phase = "select"
    /\ \E answered \in BOOLEAN :
          IF scan.base_ref # "" /\ scan.head_ref # "" /\ ~answered
          THEN Raise("changed_files request failed")
          ELSE LET selection == _select_repo_files(scan.tree.files, repo.changed, scan.scope_paths,
                                                   scan.extensions, scan.max_files,
                                                   scan.base_ref, scan.head_ref)
               IN  /\ scan' = hset(scan,
                         [selected_files |-> selection.selected_files,
                          candidate_count |-> selection.candidate_count,
                          next |-> 1,
                          analyzer_cache |-> <<>>,
                          file_results |-> <<>>,
                          skipped_files |-> <<>>,
                          global_issues |-> <<>>,
                          global_positive |-> <<>>,
                          total_bytes |-> 0,
                          fetches |-> <<>>])
                   /\ phase' = "files"
                   /\ UNCHANGED job
    /\ UNCHANGED <<env, analyzer, first, last, riskCall, repo, redis, procs>>

\* the loop body, for the next selected file
ScanFile ==
    /\ phase = "files"
    /\ scan.next <= Len(scan.selected_files)
    /\ \E fetch_ok \in BOOLEAN : scan' = ScanStep(scan, fetch_ok)
    /\ UNCHANGED <<env, analyzer, first, last, riskCall, job, phase, repo, redis, procs>>

\* after the loop: file_results.sort(...), and the locals of the review loop
RankFiles ==
    /\ phase = "files"
    /\ scan.next > Len(scan.selected_files)
    /\ scan' = hset(scan, [file_results |-> SortedByRiskPoints(scan.file_results),
                           reviewed |-> 0,
                           llm_replies |-> <<>>,
                           gpt_major |-> <<>>,
                           gpt_minor |-> <<>>,
                           gpt_clean |-> <<>>])
    /\ phase' = "hotspots"
    /\ UNCHANGED <<env, analyzer, first, last, riskCall, job, repo, redis, procs>>

\* for hotspot in file_results[:gpt_hotspots]: the review of the next hotspot
ReviewHotspot ==
    /\ phase = "hotspots"
    /\ scan.reviewed < Min(scan.gpt_hotspots, Len(scan.file_results))
    /\ \E llm_answer \in LlmAnswers :
          LET hotspot == scan.file_results[scan.reviewed + 1]
              gpt_out == _normalize_gpt_result(llm_answer)
          IN  scan' = [scan EXCEPT
                  !.reviewed = @ + 1,
                  !.llm_replies = Append(@, llm_answer),
                  !.file_results[scan.reviewed + 1].gpt = gpt_out,
                  !.gpt_major = _aggregate_gpt_issue_items(gpt_out.major_issues, hotspot.path, @, MaxGptItems),
                  !.gpt_minor = _aggregate_gpt_issue_items(gpt_out.minor_issues, hotspot.path, @, MaxGptItems),
                  !.gpt_clean = AddCleanFindings(gpt_out.clean_findings, hotspot.path, @)]
    /\ UNCHANGED <<env, analyzer, first, last, riskCall, job, phase, repo, redis, procs>>

\* the rest of _analyze_github_repo, and its result written with status done
FinishScan ==
    /\ phase = "hotspots"
    /\ scan.reviewed >= Min(scan.gpt_hotspots, Len(scan.file_results))
    /\ job' = hset(job, [status |-> "done",
                         result |-> RepoResult(scan, scan.mode, scan.context, scan.runbook)])
    /\ phase' = "finished"
    /\ UNCHANGED <<env, analyzer, first, last, riskCall, scan, repo, redis, procs>>

NextRunOne ==
    \/ StartJob
    \/ GetRunbook
    \/ AnalyzeInline
    \/ OpenRepo
    \/ SelectFiles
    \/ ScanFile
    \/ RankFiles
    \/ ReviewHotspot
    \/ FinishScan

SpecRunOne == InitRunOne /\ [][NextRunOne]_vars

\* the job has ended with a result
JobDone == phase = "finished" /\ job.status = "done"

\* the job has ended as a repository scan with a result
ScanDone == JobDone /\ job.result.source = "github"

\* the file loop of a repository scan has started
InFileLoop == scan # None /\ "total_bytes" \in DOMAIN scan

\* the position in selected_files at which a path was discovered
Discovery(path) == CHOOSE i \in 1..Len(scan.selected_files) : scan.selected_files[i] = path

AnalysedPaths == {scan.file_results[k].path : k \in 1..Len(scan.file_results)}

\* total_bytes as it stood when the i-th selected file was reached: the bytes
\* of the files analysed before it
BytesWhenReached(i) ==
    SumSeq([k \in 1..Len(scan.file_results) |->
               IF Discovery(scan.file_results[k].path) < i THEN scan.file_results[k].bytes ELSE 0])

BudgetReasons == {"total_byte_cap_reached", "byte_budget_exhausted"}

\* C7: in a repository scan, with a collaborator that returns at most the
\* max_bytes asked for, fetched_bytes never exceeds MAX_TOTAL_FETCH_BYTES, at
\* any point of the scan and in the result, and every selected file reached
\* once the budget is used up is in skipped_files with reason
\* total_byte_cap_reached or byte_budget_exhausted and is not analysed.
C7_ByteBudget ==
    /\ InFileLoop =>
          /\ scan.total_bytes <= MAX_TOTAL_FETCH_BYTES
          /\ \A i \in 1..(scan.next - 1) :
                BytesWhenReached(i) >= MAX_TOTAL_FETCH_BYTES =>
                    /\ \E k \in 1..Len(scan.skipped_files) :
                          /\ scan.skipped_files[k].path = scan.selected_files[i]
                          /\ scan.skipped_files[k].reason \in BudgetReasons
                    /\ scan.selected_files[i] \notin AnalysedPaths
    /\ ScanDone => job.result.github.fetched_bytes <= MAX_TOTAL_FETCH_BYTES

\* C7 witness: a finished scan whose files used up the whole budget, the
\* last of them cut to what was left of it, and whose next file was skipped
\* with reason total_byte_cap_reached.
C7_Witness ==
    /\ ScanDone
    /\ job.result.github.fetched_bytes = MAX_TOTAL_FETCH_BYTES
    /\ \E k \in 1..Len(job.result.files) :
          /\ job.result.files[k].truncated
          /\ job.result.files[k].bytes < MAX_FILE_FETCH_BYTES
    /\ \E k \in 1..Len(job.result.github.skipped_files) :
          job.result.github.skipped_files[k].reason = "total_byte_cap_reached"

\* the hotspot count the job asks for
ConfiguredHotspots == Get(job.context, "gpt_hotspots", DEFAULT_GPT_HOTSPOTS)

ReviewedFiles == {k \in 1..Len(job.result.files) : job.result.files[k].gpt # None}

\* C8: in a repository scan with hotspot count K >= 1 and N analysed files,
\* exactly min(K, N) files have an LLM review and the others have gpt = null;
\* every reviewed file has at least the risk_points of every other file, and
\* of two files with equal risk_points the one discovered first is reviewed.
C8_Hotspots ==
    (ScanDone /\ ConfiguredHotspots >= 1) =>
        LET files == job.result.files
            unreviewed == (1..Len(files)) \ ReviewedFiles
        IN  /\ Cardinality(ReviewedFiles) = Min(ConfiguredHotspots, Len(files))
            /\ \A k \in unreviewed : files[k].gpt = None
            /\ \A r \in ReviewedFiles, u \in unreviewed :
                  /\ files[r].risk_points >= files[u].risk_points
                  /\ files[r].risk_points = files[u].risk_points =>
                        Discovery(files[r].path) < Discovery(files[u].path)

\* C8 witness: a finished scan with two hotspots and three analysed files:
\* one reviewed file was discovered after the file left without review and
\* has more risk_points, the other reviewed file ties with the file left
\* without review and was discovered before it.
C8_Witness ==
    /\ ScanDone
    /\ ConfiguredHotspots = 2
    /\ Len(job.result.files) = 3
    /\ \E r1 \in ReviewedFiles, r2 \in ReviewedFiles, u \in (1..Len(job.result.files)) \ ReviewedFiles :
          /\ job.result.files[r1].risk_points > job.result.files[u].risk_points
          /\ Discovery(job.result.files[r1].path) > Discovery(job.result.files[u].path)
          /\ job.result.files[r2].risk_points = job.result.files[u].risk_points
          /\ Discovery(job.result.files[r2].path) < Discovery(job.result.files[u].path)

\* the job's rule files are present and, for a repository scan, its
\* repository URL is set
WellFormedJob ==
    IF LowerStrip(Get(job.context, "source", "code")) = "github"
    THEN Get(job.context, "repo_url", "") # ""
    ELSE RuleFileKey(LowerStrip(job.language)) \in DOMAIN env.files

\* C9: every job whose rule files are present and whose repository URL is
\* set ends with status done and a gate PASS, WARN or FAIL, whatever else
\* fails during the job.
C9_AlwaysDone ==
    (phase = "finished" /\ WellFormedJob) =>
        /\ job.status = "done"
        /\ job.result.gate \in {"PASS", "WARN", "FAIL"}

(***************************************************************************)
(* Further properties of the engine called                                 *)
(***************************************************************************)
\* the list b is the list a with one more entry
OneMore(a, b) ==
    /\ Len(b) = Len(a) + 1
    /\ \E k \in 1..Len(b) : a = SubSeq(b, 1, k - 1) \o SubSeq(b, k + 1, Len(b))

\* C11: when the issues found by one analysis are those found by another plus
\* one more matched rule or detector finding, its score is not higher.
C11_ScoreMonotone ==
    first # None =>
        /\ OneMore(first.result.issues, last.result.issues) =>
              last.result.score <= first.result.score
        /\ OneMore(last.result.issues, first.result.issues) =>
              first.result.score <= last.result.score

\* C11 witness: two analyses, the second finding the issues of the first and
\* one more, of positive penalty, and returning a lower score.
C11_Witness ==
    /\ first # None
    /\ first.result.issues # <<>>
    /\ OneMore(first.result.issues, last.result.issues)
    /\ PenaltySum(last.result.issues) > PenaltySum(first.result.issues)
    /\ last.result.score < first.result.score

(***************************************************************************)
(* One snippet analysed: a Python snippet made of one call, at module      *)
(* level or inside loops, or a Java or C++ snippet, given to a fresh       *)
(* LatencyAnalyzer.                                                        *)
(***************************************************************************)
MaxLoopDepth == 2

AsyncFor(iter, body) == [type |-> "AsyncFor", target |-> Name("i"), iter |-> iter, body |-> body]

\* the callee of the call: a name, or an attribute of a module
Callees ==
    {[mod |-> "", attr |-> a] : a \in {"print", "open", "range", "bytearray"}}
    \cup {[mod |-> "logging", attr |-> a] : a \in {"debug", "info", "warning", "error", "critical", "exception"}}
    \cup {[mod |-> "time", attr |-> "sleep"], [mod |-> "os", attr |-> "system"],
          [mod |-> "subprocess", attr |-> "run"], [mod |-> "subprocess", attr |-> "Popen"],
          [mod |-> "json", attr |-> "dumps"], [mod |-> "json", attr |-> "loads"],
          [mod |-> "re", attr |-> "compile"],
          [mod |-> "requests", attr |-> "get"], [mod |-> "requests", attr |-> "post"]}

CalleeNode(callee) ==
    IF callee.mod = "" THEN Name(callee.attr) ELSE Attribute(Name(callee.mod), callee.attr)

\* a loop statement of the given kind
LoopStmt(kind, header, body) ==
    CASE kind = "For" -> For(header, body)
      [] kind = "AsyncFor" -> AsyncFor(header, body)
      [] kind = "While" -> While(header, body)

\* the statements nested in the loops given, the outermost first
RECURSIVE Nested(_, _)
Nested(stmts, loops) ==
    IF loops = <<>> THEN stmts
    ELSE <<LoopStmt(Head(loops), Name("xs"), Nested(stmts, Tail(loops)))>>

\* the snippet with the one call as a statement of the innermost body (or of
\* the module), or as the header expression of the innermost loop
CallSnippet(callee, loops, place) ==
    LET call == Call(CalleeNode(callee), <<Name("x")>>)
        tree == IF place = "header"
                THEN Module(Nested(<<LoopStmt(loops[Len(loops)], call, <<Literal("Pass")>>)>>,
                                   SubSeq(loops, 1, Len(loops) - 1)))
                ELSE Module(Nested(<<Expr(call)>>, loops))
    IN  Snippet(tree, {"R1"} \cup (IF callee = [mod |-> "", attr |-> "print"] THEN {"print("} ELSE {}), <<>>)

LoopNests == ListsUpTo(LoopTypes, MaxLoopDepth)

SnippetPipelines == {None, [tokens |-> <<"detector", "regex">>]}

\* the snippets in which any of the negative patterns of a table is found, any
\* number of times, together with none or all of the positive patterns
PatternSnippets(negatives, positives) ==
    {Snippet(SyntaxError, found \cup signs, <<>>) :
        found \in SUBSET {negatives[i].pat : i \in 1..Len(negatives)},
        signs \in {{}, {positives[i].pat : i \in 1..Len(positives)}}}

\* Python texts that ast.parse rejects, with what re.search finds in them
UnparsableSnippets ==
    {Snippet(SyntaxError, found, <<>>) :
        found \in SUBSET {"print(", "import numpy", "import mmap", "R1"}}

\* the call analyze(code) about to be made, with what the snippet is made of
SnippetCalls ==
    {[language |-> "Python", callee |-> c, loops |-> l, place |-> pl,
      code |-> CallSnippet(c, l, pl), done |-> FALSE] :
        c \in Callees, l \in LoopNests, pl \in {"body"}}
    \cup {[language |-> "Python", callee |-> c, loops |-> l, place |-> pl,
           code |-> CallSnippet(c, l, pl), done |-> FALSE] :
             c \in Callees, l \in LoopNests \ {<<>>}, pl \in {"header"}}
    \cup {[language |-> lang, code |-> code, done |-> FALSE] :
             lang \in {"java"}, code \in JavaSnippets}
    \cup {[language |-> lang, code |-> code, done |-> FALSE] :
             lang \in {"C++"}, code \in CppSnippets}
    \cup {[language |-> "Python", place |-> "nowhere", code |-> code, done |-> FALSE] :
             code \in UnparsableSnippets}
    \cup {[language |-> "java", code |-> code, done |-> FALSE] :
             code \in PatternSnippets(JavaNegativePatterns, JavaPositiveImports \o JavaPositiveCalls)}
    \cup {[language |-> "cpp", code |-> code, done |-> FALSE] :
             code \in PatternSnippets(CppNegativePatterns, CppPositiveIncludes)}

InitSnippet ==
    /\ InitQueueIdle
    /\ \E rules \in RuleLists, pipeline \in SnippetPipelines :
           env = [files |-> [k \in {"python", "java", "cpp"} |-> rules],
                  semgrep |-> "unavailable",
                  LATENCY_PIPELINE |-> pipeline]
    /\ last \in SnippetCalls
    /\ analyzer = None
    /\ first = None
    /\ InitRiskIdle
    /\ InitWorkerIdle

\* LatencyAnalyzer(language).analyze(code); the detector's own result is kept
\* beside the analysis
AnalyzeSnippet ==
    /\ ~last.done
    /\ analyzer' = LatencyAnalyzer(last.language, env.files)
    /\ last' = hset(last,
                    [done |-> TRUE,
                     steps |-> Steps(LowerStrip(last.language), env.LATENCY_PIPELINE),
                     detector |-> Detect(LowerStrip(last.language), last.code),
                     result |-> analyze(analyzer', env.LATENCY_PIPELINE, env.semgrep, last.code)])
    /\ UNCHANGED <<env, first, riskCall, job, phase, scan, repo, redis, procs>>

NextSnippet == AnalyzeSnippet

SpecSnippet == InitSnippet /\ [][NextSnippet]_vars

\* the analysis of a Python snippet with its one call in a body or at module level
BodyCallDone == last.done /\ last.language = "Python" /\ last.place = "body"

DottedName(callee) == IF callee.mod = "" THEN callee.attr ELSE callee.mod \o "." \o callee.attr

\* the deny-listed names other than re.compile
DenyListedNames ==
    {"print", "logging.debug", "logging.info", "logging.warning", "logging.error",
     "logging.critical", "time.sleep", "subprocess.run", "subprocess.Popen", "os.system",
     "json.dumps", "json.loads", "open", "requests.get", "requests.post"}

\* C12: a call to a deny-listed name outside every for, while and async for
\* yields no hot-loop issue; the same call in a loop body yields exactly one,
\* of penalty 8, however many loops enclose the body.
C12_LoopScoping ==
    (BodyCallDone /\ DottedName(last.callee) \in DenyListedNames) =>
        IF last.loops = <<>>
        THEN last.detector.issues = <<>>
        ELSE /\ Len(last.detector.issues) = 1
             /\ last.detector.issues[1].penalty = 8
             /\ last.detector.issues[1].rule = "Call to " \o DottedName(last.callee) \o " in hot loop"

\* C12 witness: time.sleep called in the body of a while loop inside a for
\* loop, and one issue of penalty 8 found.
C12_Witness ==
    /\ BodyCallDone
    /\ DottedName(last.callee) = "time.sleep"
    /\ last.loops = <<"For", "While">>
    /\ Len(last.detector.issues) = 1
    /\ last.detector.issues[1].penalty = 8

\* C13: one re.compile call in a loop body yields exactly two issues, the
\* hot-loop call issue of penalty 8 and the regex-compile issue of penalty 10,
\* 18 in all and a detector-only score of 82; outside every loop it yields
\* neither.
C13_RegexCompile ==
    (BodyCallDone /\ DottedName(last.callee) = "re.compile") =>
        IF last.loops = <<>>
        THEN last.detector.issues = <<>>
        ELSE /\ Len(last.detector.issues) = 2
             /\ {last.detector.issues[i].rule : i \in 1..2} =
                    {"Call to re.compile in hot loop", "Regex compile in loop"}
             /\ \A i \in 1..2 :
                   last.detector.issues[i].penalty =
                       IF last.detector.issues[i].rule = "Regex compile in loop" THEN 10 ELSE 8
             /\ PenaltySum(last.detector.issues) = 18
             /\ last.steps = <<"detector">> => last.result.score = 82

\* C13 witness: re.compile called in the body of a for loop, analysed by the
\* detector stage alone with score 82.
C13_Witness ==
    /\ BodyCallDone
    /\ DottedName(last.callee) = "re.compile"
    /\ last.loops = <<"For">>
    /\ last.steps = <<"detector">>
    /\ Len(last.result.issues) = 2
    /\ last.result.score = 82

\* C14: with no pipeline configured, the Python snippet of one for loop whose
\* body is one print call yields exactly one issue, the hot-loop print call
\* of penalty 8, score 92 and no positive signal, whatever the rule file
\* holds: the default pipeline is the detector alone for Python, and the
\* detector followed by regex for every other language.
C14_DefaultPipeline ==
    (last.done /\ env.LATENCY_PIPELINE = None) =>
        /\ last.steps = IF LowerStrip(last.language) = "python"
                        THEN <<"detector">> ELSE <<"detector", "regex">>
        /\ (BodyCallDone /\ DottedName(last.callee) = "print" /\ last.loops = <<"For">>) =>
              /\ Len(last.result.issues) = 1
              /\ last.result.issues[1].rule = "Call to print in hot loop"
              /\ last.result.issues[1].penalty = 8
              /\ last.result.score = 92
              /\ last.result.signals.positive = <<>>

\* C14 witness: the print loop analysed with no pipeline configured and a
\* rule file whose first rule matches the snippet; score 92.
C14_Witness ==
    /\ BodyCallDone
    /\ env.LATENCY_PIPELINE = None
    /\ DottedName(last.callee) = "print"
    /\ last.loops = <<"For">>
    /\ analyzer.rules # <<>>
    /\ re_search(analyzer.rules[1].pattern, last.code)
    /\ last.result.score = 92


(***************************************************************************)
(* The top_actions of a job result.                                        *)
(***************************************************************************)
\* the sequence as the set of its items
Items(seq) == {seq[i] : i \in 1..Len(seq)}

\* the texts the findings of one LLM list give
FindingTexts(findings) == {FindingAction(findings[i]) : i \in 1..Len(findings)} \ {""}

\* the texts of the static issues of one file that have one of the severities
IssueTexts(file, severities) ==
    {file.path \o ": " \o Get(file.static.issues[i], "message", Get(file.static.issues[i], "rule", "Issue")) :
        i \in {n \in 1..Len(file.static.issues) :
                  _severity_from_issue(file.static.issues[n]) \in severities}}

\* the preference class of an entry: 1 for a major LLM finding, 2 for a
\* minor LLM finding, 3 for a static issue
PreferenceClass(result, entry) ==
    IF entry \in FindingTexts(result.gpt.major_issues) THEN 1
    ELSE IF entry \in FindingTexts(result.gpt.minor_issues) THEN 2
    ELSE 3

\* C15: the top_actions of every job result has at most 8 entries, no two of
\* them equal, every entry of a major LLM finding before every entry of a
\* minor LLM finding and these before every entry of a static issue; every
\* entry that no LLM finding gives is the text of a static issue of severity
\* major or minor, so an info issue never gives one.
C15_TopActions ==
    JobDone =>
        LET result == job.result
            top == result.top_actions
        IN  /\ Len(top) <= MaxTopActions
            /\ \A i \in 1..Len(top), j \in 1..Len(top) :
                  i < j => /\ top[i] # top[j]
                           /\ PreferenceClass(result, top[i]) <= PreferenceClass(result, top[j])
            /\ \A i \in 1..Len(top) :
                  PreferenceClass(result, top[i]) = 3 =>
                      \E k \in 1..Len(result.files) :
                          top[i] \in IssueTexts(result.files[k], {"major", "minor"})

\* C15 witness: a finished scan whose top_actions holds entries of all three
\* classes and has room left, whose major LLM findings repeat a text that a
\* minor finding repeats once more, and one of whose files has an info issue.
C15_Witness ==
    /\ ScanDone
    /\ Len(job.result.top_actions) < MaxTopActions
    /\ {PreferenceClass(job.result, job.result.top_actions[i]) :
           i \in 1..Len(job.result.top_actions)} = {1, 2, 3}
    /\ Cardinality(FindingTexts(job.result.gpt.major_issues)) < Len(job.result.gpt.major_issues)
    /\ FindingTexts(job.result.gpt.major_issues) \cap FindingTexts(job.result.gpt.minor_issues) # {}
    /\ \E k \in 1..Len(job.result.files) :
          /\ IssueTexts(job.result.files[k], {"info"}) # {}
          /\ IssueTexts(job.result.files[k], {"info"}) \cap Items(job.result.top_actions) = {}


(***************************************************************************)
(* The files a repository scan leaves out.                                 *)
(***************************************************************************)
\* the candidate paths of the scan: the changed files that are not removed
\* when both refs are given, the paths of the tree otherwise
CandidatePaths ==
    IF scan.base_ref # "" /\ scan.head_ref # ""
    THEN {repo.changed.changed_files[i].filename :
             i \in {n \in 1..Len(repo.changed.changed_files) :
                       Lower(repo.changed.changed_files[n].status) # "removed"}}
    ELSE {scan.tree.files[i].path : i \in 1..Len(scan.tree.files)}

SkippedPaths == {scan.skipped_files[k].path : k \in 1..Len(scan.skipped_files)}

SkippedWith(path, reason) ==
    \E k \in 1..Len(scan.skipped_files) :
        scan.skipped_files[k] = [path |-> path, reason |-> reason]

\* C16: at the end of a scan, every candidate path with an unsupported
\* extension is in skipped_files with reason unsupported_extension, and every
\* selected file that is binary, empty or larger than the per-file byte
\* budget is in skipped_files and is not analysed.
C16_SkippedRecorded ==
    ScanDone =>
        \A path \in CandidatePaths :
            /\ _language_for_path(path) = None => SkippedWith(path, "unsupported_extension")
            /\ (/\ path \in Items(scan.selected_files)
                /\ \/ repo.blobs[path].binary
                   \/ "blank" \in DOMAIN repo.blobs[path].text
                   \/ repo.blobs[path].size > MAX_FILE_FETCH_BYTES)
               => (path \in SkippedPaths /\ path \notin AnalysedPaths)


(***************************************************************************)
(* A file whose fetch fails.                                               *)
(***************************************************************************)
\* the reasons a failed fetch is recorded with: fetch_failed and the error
FetchFailedReasons == {"fetch_failed: " \o exc : exc \in {"request failed", "timed out"}}

\* this step is the loop body run for a file whose fetch fails
FetchFails ==
    /\ phase = "files"
    /\ scan.next <= Len(scan.selected_files)
    /\ Len(scan'.skipped_files) = Len(scan.skipped_files) + 1
    /\ scan'.skipped_files[Len(scan'.skipped_files)].reason \in FetchFailedReasons

\* C17: the loop body run for a selected file whose fetch fails records the
\* file in skipped_files with a reason that begins with fetch_failed, leaves
\* total_bytes, file_results, the issues and the positive signals as they
\* were and goes on to the next file; once the file loop has started the job
\* ends only with status done and a gate, every selected file analysed or
\* skipped.
C17_FetchFailure ==
    /\ [][FetchFails =>
             /\ scan'.skipped_files = Append(scan.skipped_files,
                                             [path |-> scan.selected_files[scan.next],
                                              reason |-> scan'.skipped_files[Len(scan'.skipped_files)].reason])
             /\ scan'.total_bytes = scan.total_bytes
             /\ scan'.file_results = scan.file_results
             /\ scan'.global_issues = scan.global_issues
             /\ scan'.global_positive = scan.global_positive
             /\ scan'.next = scan.next + 1
             /\ phase' = "files"]_vars
    /\ []((InFileLoop /\ phase = "finished") =>
             /\ job.status = "done"
             /\ job.result.gate \in {"PASS", "WARN", "FAIL"}
             /\ Items(scan.selected_files) = AnalysedPaths \cup SkippedPaths)

\* C17 witness: a finished scan in which the fetch of one selected file
\* failed, a file selected after it was analysed, and the job has a gate.
C17_Witness ==
    /\ ScanDone
    /\ job.result.gate \in {"PASS", "WARN", "FAIL"}
    /\ \E k \in 1..Len(scan.skipped_files) :
          /\ scan.skipped_files[k].reason \in FetchFailedReasons
          /\ \E path \in AnalysedPaths :
                Discovery(path) > Discovery(scan.skipped_files[k].path)


(***************************************************************************)
(* A review whose LLM call fails.                                          *)
(***************************************************************************)
\* the strings query_llm_with_code returns when the call fails or the reply
\* is no JSON
LlmFailures == {LlmErrorMarker, LlmFallback}

\* the text of a failed call: the error marker, or the reply that is no JSON
ReplyText(raw) == IF "text" \in DOMAIN raw THEN raw.text ELSE raw.json.summary

FailedReview(gpt, raw) ==
    /\ gpt.major_issues = <<>>
    /\ gpt.minor_issues = <<>>
    /\ gpt.confidence = 0
    /\ gpt.summary = ReplyText(raw)

NoFindings == [major_issues |-> <<>>, minor_issues |-> <<>>]

ProcessingOrder == SelectSeq(scan.selected_files, LAMBDA path : path \in AnalysedPaths)

\* the static result of the analysed file of this path
StaticOf(path) ==
    job.result.files[CHOOSE k \in 1..Len(job.result.files) : job.result.files[k].path = path].static

\* the file results at position k of the combined issue list: the k-th issue
\* belongs to the file whose issues cover that position
RECURSIVE IssuesInOrder(_)
IssuesInOrder(paths) ==
    IF paths = <<>> THEN <<>>
    ELSE [i \in 1..Len(StaticOf(Head(paths)).issues) |->
             [path |-> Head(paths), issue |-> StaticOf(Head(paths)).issues[i]]]
         \o IssuesInOrder(Tail(paths))

\* the combined issue is the file's issue with the file path and a severity
TaggedAs(combined, path, issue) ==
    /\ "file" \in DOMAIN combined /\ combined.file = path
    /\ "severity" \in DOMAIN combined /\ combined.severity # ""
    /\ \A field \in DOMAIN issue \ {"file", "severity"} :
          field \in DOMAIN combined /\ combined[field] = issue[field]

\* C20: the combined static result of a finished scan holds, in the order in
\* which the files were processed, every issue of every analysed file, with
\* the file path and a severity; its positive signals list each signal of
\* any file once; its score is max(0, 100 - the sum of the penalties of all
\* issues), between 0 and 100.
C20_CombinedStatic ==
    ScanDone =>
        LET static == job.result.static
            expected == IssuesInOrder(ProcessingOrder)
            positive == static.signals.positive
        IN  /\ Len(static.issues) = Len(expected)
            /\ \A i \in 1..Len(expected) :
                  TaggedAs(static.issues[i], expected[i].path, expected[i].issue)
            /\ \A i \in 1..Len(positive), j \in 1..Len(positive) : i # j => positive[i] # positive[j]
            /\ Items(positive) = UNION {Items(StaticOf(path).signals.positive) : path \in AnalysedPaths}
            /\ static.score = Max(0, 100 - PenaltySum(static.issues))
            /\ static.score \in 0..100

\* C20 witness: a finished scan of three analysed files, the riskiest of them
\* not the one processed first, two of them with the same positive signal, and
\* penalties that add up to more than 100, so that the score is 0.
C20_Witness ==
    /\ ScanDone
    /\ Len(job.result.files) = 3
    /\ job.result.files[1].path # ProcessingOrder[1]
    /\ \E p \in AnalysedPaths, q \in AnalysedPaths :
          /\ p # q
          /\ Items(StaticOf(p).signals.positive) \cap Items(StaticOf(q).signals.positive) # {}
    /\ PenaltySum(job.result.static.issues) > 100
    /\ job.result.static.score = 0


(***************************************************************************)
(* The job queue: API requests that enqueue jobs (main.py) and workers     *)
(* that run loop() (worker.py) against one Redis.  Every Redis command is  *)
(* one step; run_one is cut at its first and its last write.               *)
(***************************************************************************)
MaxRequests == 3

Requests == 1..MaxRequests

Workers == {"worker-1", "worker-2"}

\* the values str(uuid.uuid4()) can take
JobIds == {"job-" \o ToString(i) : i \in 1..MaxRequests}

\* the value goes to the tail of the list, where rpop takes from
lpush_at_tail(list, value) == list \o <<value>>

\* r.lpush(key, value): the value goes to the head of the list
lpush(list, value) == <<value>> \o list

\* the tail of the list is returned and left in the list
rpop_peek(list) ==
    IF list = <<>> THEN [value |-> None, list |-> list]
    ELSE [value |-> [job_id |-> list[Len(list)]], list |-> list]

\* r.rpop(key): the tail of the list is removed and returned, None when the
\* list is empty
rpop(list) ==
    IF list = <<>> THEN [value |-> None, list |-> list]
    ELSE [value |-> [job_id |-> list[Len(list)]], list |-> SubSeq(list, 1, Len(list) - 1)]

\* json.dumps(context) as the record keeps it, and json.loads of a field read
\* back: the value again, the empty dict for a text that is no JSON
json_dumps(value) == [json |-> value]

json_loads(raw) == IF "json" \in DOMAIN raw THEN raw.json ELSE <<>>

\* what the request asks to be analysed: AnalyzeRequest after create_job has
\* set the default source
Submission(q) ==
    [language |-> IF q % 2 = 0 THEN "Java" ELSE "python",
     code |-> "code-" \o ToString(q),
     mode |-> "release_readiness",
     context |-> [source |-> "code", request |-> q]]

\* the hash stored at a key, empty when there is none
HashAt(job_id) == IF job_id \in DOMAIN redis.hashes THEN redis.hashes[job_id] ELSE <<>>

InitQueue ==
    /\ redis = [hashes |-> <<>>, queue |-> <<>>, heartbeat |-> FALSE]
    /\ procs = [api |-> [q \in Requests |-> [pc |-> "received"]],
                workers |-> [w \in Workers |-> [pc |-> "rpop"]],
                pushed |-> <<>>,
                popped |-> <<>>]
    /\ InitEngineIdle
    /\ InitRiskIdle
    /\ InitWorkerIdle

\* create_job down to enqueue_job's r.hset: the job record is written under
\* a fresh id
EnqueueHset(q) ==
    /\ procs.api[q].pc = "received"
    /\ \E job_id \in JobIds \ DOMAIN redis.hashes :
          /\ redis' = [redis EXCEPT !.hashes =
                          (job_id :> hset(HashAt(job_id),
                                          [status |-> "queued",
                                           language |-> Submission(q).language,
                                           code |-> Submission(q).code,
                                           mode |-> Submission(q).mode,
                                           context |-> json_dumps(Submission(q).context)])) @@ @]
          /\ procs' = [procs EXCEPT !.api[q] = [pc |-> "lpush", job_id |-> job_id]]
    /\ UNCHANGED <<env, analyzer, first, last, riskCall, job, phase, scan, repo>>

\* enqueue_job's r.lpush, and the answer to the request
EnqueueLpush(q) ==
    /\ procs.api[q].pc = "lpush"
    /\ redis' = [redis EXCEPT !.queue = lpush(@, procs.api[q].job_id)]
    /\ procs' = [procs EXCEPT !.api[q].pc = "answered",
                              !.pushed = Append(@, procs.api[q].job_id)]
    /\ UNCHANGED <<env, analyzer, first, last, riskCall, job, phase, scan, repo>>

\* one turn of loop() down to run_one: the heartbeat when it is due, r.rpop,
\* and the sleep when the queue is empty
Poll(w) ==
    /\ procs.workers[w].pc = "rpop"
    /\ \E due \in BOOLEAN :
          LET answer == rpop(redis.queue)
          IN  /\ redis' = [redis EXCEPT !.heartbeat = @ \/ due, !.queue = answer.list]
              /\ procs' = IF answer.value = None THEN procs
                          ELSE [procs EXCEPT
                                   !.workers[w] = [pc |-> "run_one", job_id |-> answer.value.job_id],
                                   !.popped = Append(@, [worker |-> w, job_id |-> answer.value.job_id])]
    /\ UNCHANGED <<env, analyzer, first, last, riskCall, job, phase, scan, repo>>

\* run_one down to its try block: status running is written, the record read
RunOneStart(w) ==
    /\ procs.workers[w].pc = "run_one"
    /\ LET job_key == procs.workers[w].job_id
           written == hset(HashAt(job_key), [status |-> "running"])
       IN  /\ redis' = [redis EXCEPT !.hashes = (job_key :> written) @@ @]
           /\ procs' = [procs EXCEPT
                            !.workers[w] =
                                [pc |-> "analysis",
                                 job_id |-> job_key,
                                 language |-> Lower(Get(written, "language", "python")),
                                 code |-> Get(written, "code", ""),
                                 mode |-> Get(written, "mode", "release_readiness"),
                                 context |-> json_loads(Get(written, "context", json_dumps(<<>>)))]]
    /\ UNCHANGED <<env, analyzer, first, last, riskCall, job, phase, scan, repo>>

\* an exception of the analysis that run_one lets through: nothing is written
run_one_outcome_uncaught(record, raised) ==
    IF raised THEN record ELSE hset(record, [status |-> "done", result |-> "result"])

\* the job record after run_one's try block: the result of the analysis, or
\* the exception it raised
run_one_outcome(record, raised) ==
    IF raised THEN hset(record, [status |-> "error", error |-> "exc", trace |-> "traceback"])
    ELSE hset(record, [status |-> "done", result |-> "result"])

\* the rest of run_one: the analysis ends with a result or raises, the
\* outcome is written; and the heartbeat loop() sets after run_one
RunOneEnd(w) ==
    /\ procs.workers[w].pc = "analysis"
    /\ \E raised \in BOOLEAN :
          redis' = [redis EXCEPT
                       !.hashes[procs.workers[w].job_id] = run_one_outcome(@, raised),
                       !.heartbeat = TRUE]
    /\ procs' = [procs EXCEPT !.workers[w] = [pc |-> "rpop"]]
    /\ UNCHANGED <<env, analyzer, first, last, riskCall, job, phase, scan, repo>>

\* the heartbeat key expires (ex=10)
HeartbeatExpires ==
    /\ redis.heartbeat
    /\ redis' = [redis EXCEPT !.heartbeat = FALSE]
    /\ UNCHANGED <<env, analyzer, first, last, riskCall, job, phase, scan, repo, procs>>

NextQueue ==
    \/ \E q \in Requests : EnqueueHset(q)
    \/ \E q \in Requests : EnqueueLpush(q)
    \/ \E w \in Workers : Poll(w)
    \/ \E w \in Workers : RunOneStart(w)
    \/ \E w \in Workers : RunOneEnd(w)
    \/ HeartbeatExpires

SpecQueue == InitQueue /\ [][NextQueue]_vars

\* the workers are alive and the calls of an analysis return or raise: a
\* worker that holds a job goes on with it
SpecQueueLive ==
    /\ SpecQueue
    /\ \A w \in Workers : WF_vars(RunOneStart(w)) /\ WF_vars(RunOneEnd(w))

\* the positions in the log of dequeued ids at which this worker dequeued
PoppedBy(w) == {k \in 1..Len(procs.popped) : procs.popped[k].worker = w}

\* the job record says the job has ended
Ended(job_id) == HashAt(job_id).status \in {"done", "error"}

\* C19: every id dequeued has a job record and is dequeued once, by one
\* worker; every job a worker dequeued before its latest one has been written
\* done or error, and so has its latest one when the worker polls the queue;
\* no two workers are running the same job.
C19_OneJobAtATime ==
    /\ \A k \in 1..Len(procs.popped), n \in 1..Len(procs.popped) :
          k # n => procs.popped[k].job_id # procs.popped[n].job_id
    /\ \A k \in 1..Len(procs.popped) : procs.popped[k].job_id \in DOMAIN redis.hashes
    /\ \A w \in Workers :
          \A k \in PoppedBy(w) :
              ((\E n \in PoppedBy(w) : n > k) \/ procs.workers[w].pc = "rpop")
                  => Ended(procs.popped[k].job_id)
    /\ \A w \in Workers, v \in Workers :
          (w # v /\ procs.workers[w].pc # "rpop" /\ procs.workers[v].pc # "rpop")
              => procs.workers[w].job_id # procs.workers[v].job_id

\* C19 witness: three jobs dequeued; one worker has finished a job and is
\* running its second while the other worker is running the third.
C19_Witness ==
    /\ Len(procs.popped) = 3
    /\ \E w \in Workers, v \in Workers :
          /\ w # v
          /\ Cardinality(PoppedBy(w)) = 2
          /\ Cardinality(PoppedBy(v)) = 1
          /\ procs.workers[w].pc = "analysis"
          /\ procs.workers[v].pc = "analysis"
          /\ \E k \in PoppedBy(w) : Ended(procs.popped[k].job_id)


(***************************************************************************)
(* The Java and C++ detectors.                                             *)
(***************************************************************************)
\* a Java or C++ snippet has been analysed
PatternCallDone(language) == last.done /\ LowerStrip(last.language) = language

NoTwoEqual(seq) == \A i \in 1..Len(seq), j \in 1..Len(seq) : i # j => seq[i] # seq[j]

\* the patterns of the table found in the snippet analysed
FoundIn(table) == {i \in 1..Len(table) : table[i].pat \in last.code.matches}

\* C21: a Java detector run yields one issue for each negative pattern found
\* in the snippet and no other, so at most 5 issues of total penalty at most
\* 44, and a C++ detector run likewise at most 5 issues of total penalty at
\* most 38; no positive label is reported twice.
C21_OncePerPattern ==
    /\ PatternCallDone("java") =>
          /\ Len(last.detector.issues) = Cardinality(FoundIn(JavaNegativePatterns))
          /\ Len(last.detector.issues) <= 5
          /\ PenaltySum(last.detector.issues) <= 44
          /\ NoTwoEqual(last.detector.issues)
          /\ NoTwoEqual(last.detector.positive_signals)
    /\ (last.done /\ LowerStrip(last.language) \in {"cpp", "c++"}) =>
          /\ Len(last.detector.issues) = Cardinality(FoundIn(CppNegativePatterns))
          /\ Len(last.detector.issues) <= 5
          /\ PenaltySum(last.detector.issues) <= 38
          /\ NoTwoEqual(last.detector.issues)
          /\ NoTwoEqual(last.detector.positive_signals)

\* C21 witness: a Java snippet in which all five negative patterns and all
\* positive patterns are found: five issues of total penalty 44, ten labels.
C21_Witness ==
    /\ PatternCallDone("java")
    /\ Len(last.detector.issues) = 5
    /\ PenaltySum(last.detector.issues) = 44
    /\ Len(last.detector.positive_signals) = 10


(***************************************************************************)
(* Everything a repository scan fetches.                                   *)
(***************************************************************************)
\* the bytes the collaborator returned over the first n fetches of the scan
ReturnedBytes(n) == SumSeq([k \in 1..n |-> scan.fetches[k].bytes_returned])

\* C22: the bytes returned over all file fetches of a scan, those of the
\* files skipped after the fetch included, never exceed
\* MAX_TOTAL_FETCH_BYTES, and each fetch asks for at most
\* min(MAX_FILE_FETCH_BYTES, the budget the earlier fetches have left).
C22_AllFetchesBounded ==
    InFileLoop =>
        /\ ReturnedBytes(Len(scan.fetches)) <= MAX_TOTAL_FETCH_BYTES
        /\ \A k \in 1..Len(scan.fetches) :
              scan.fetches[k].max_bytes
                  <= Min(MAX_FILE_FETCH_BYTES, MAX_TOTAL_FETCH_BYTES - ReturnedBytes(k - 1))


\* C23: a call to a deny-listed name that stands in the header of a loop (the
\* iterable of a for or async for, the test of a while) and in no loop body
\* yields no hot-loop issue.
C23_HeaderCall ==
    (/\ last.done
     /\ last.language = "Python"
     /\ last.place = "header"
     /\ Len(last.loops) = 1
     /\ DottedName(last.callee) \in DenyListedNames \cup {"re.compile"})
        => last.detector.issues = <<>>


(***************************************************************************)
(* Rules the regex stage cannot compile.                                   *)
(***************************************************************************)
\* the instance with the rules of invalid pattern taken out of its list
WithoutInvalidRules(self) ==
    [self EXCEPT !.rules = SelectSeq(@, LAMBDA rule : ValidPattern(rule.pattern))]

\* C24: the result of an analysis is the result the same call gives on the
\* rule list without the rules whose pattern is no valid regular expression:
\* such a rule adds no issue, leaves the score alone and does not keep the
\* rules before and after it from being evaluated.
C24_InvalidRuleSkipped ==
    last # None =>
        last.result = analyze(WithoutInvalidRules(analyzer), last.pipeline, env.semgrep, last.code)

\* C24 witness: the regex stage run on a rule list whose first rule has an
\* invalid pattern and whose second rule is found in the snippet and
\* reported.
C24_Witness ==
    /\ last # None
    /\ InSeq("regex", last.steps)
    /\ Len(analyzer.rules) = 2
    /\ ~ValidPattern(analyzer.rules[1].pattern)
    /\ StageIssues("regex", last) # <<>>
    /\ \E i \in 1..Len(last.result.issues) : last.result.issues[i].penalty = analyzer.rules[2].penalty


(***************************************************************************)
(* Python that does not parse.                                             *)
(***************************************************************************)
UnparsableDone == last.done /\ last.language = "Python" /\ last.code.ast = SyntaxError

\* the labels of the import patterns found in the snippet analysed
ImportLabels == {PyPositivePatterns[i].label :
                    i \in {n \in 1..Len(PyPositivePatterns) : PyPositivePatterns[n].pat \in last.code.matches}}

\* C25: for a Python snippet that does not parse the detector returns a
\* result: the one issue print usage of penalty 4 when the text holds a
\* print call and no issue otherwise, and the positive signals of the imports
\* found; under the default pipeline the analysis returns these issues and a
\* score of 96 or 100.
C25_ParseFallback ==
    UnparsableDone =>
        /\ last.detector.issues =
               IF "print(" \in last.code.matches
               THEN <<[rule |-> "print usage", message |-> "Printing can be slow in hot paths.", penalty |-> 4]>>
               ELSE <<>>
        /\ Items(last.detector.positive_signals) = ImportLabels
        /\ env.LATENCY_PIPELINE = None =>
              /\ last.result.issues = last.detector.issues
              /\ last.result.score = IF "print(" \in last.code.matches THEN 96 ELSE 100
              /\ last.result.signals.positive = last.detector.positive_signals

\* C25 witness: a text that does not parse, with a print call and two of the
\* imports, analysed under the default pipeline: score 96, two signals.
C25_Witness ==
    /\ UnparsableDone
    /\ env.LATENCY_PIPELINE = None
    /\ last.result.score = 96
    /\ Len(last.result.issues) = 1
    /\ Cardinality(ImportLabels) = 2
    /\ Len(last.result.signals.positive) = 2


(***************************************************************************)
(* The selected files of a scan, analysed or skipped.                      *)
(***************************************************************************)
ResultFilePaths == [k \in 1..Len(job.result.files) |-> job.result.files[k].path]

ResultSkippedPaths ==
    [k \in 1..Len(job.result.github.skipped_files) |-> job.result.github.skipped_files[k].path]

\* C26: in the result of a repository scan every selected path is once in
\* files or once in skipped_files, never in both and never twice, nothing else
\* is in either list, and selected_file_count is analyzed_file_count plus the
\* number of skipped_files entries.
C26_Partition ==
    ScanDone =>
        /\ NoTwoEqual(ResultFilePaths \o ResultSkippedPaths)
        /\ Items(ResultFilePaths) \cup Items(ResultSkippedPaths) = Items(scan.selected_files)
        /\ Items(ResultFilePaths) \cap Items(ResultSkippedPaths) = {}
        /\ job.result.github.selected_file_count = Len(scan.selected_files)
        /\ job.result.github.analyzed_file_count = Len(job.result.files)
        /\ job.result.github.selected_file_count =
               job.result.github.analyzed_file_count + Len(job.result.github.skipped_files)

\* C26 witness: a finished scan of three selected files of which one was
\* analysed and two were skipped for different reasons, one of them a failed
\* fetch.
C26_Witness ==
    /\ ScanDone
    /\ job.result.github.selected_file_count = 3
    /\ job.result.github.analyzed_file_count = 1
    /\ \E a, b \in 1..Len(job.result.github.skipped_files) :
          /\ job.result.github.skipped_files[a].reason \in FetchFailedReasons
          /\ job.result.github.skipped_files[b].reason \in {"binary", "empty", "total_byte_cap_reached"}


(***************************************************************************)
(* A scan after its byte budget is used up.                                *)
(***************************************************************************)
\* the positions in selected_files of the files skipped for the total budget
CapSkips ==
    {i \in 1..Len(scan.selected_files) :
        SkippedWith(scan.selected_files[i], "total_byte_cap_reached")}

\* this step is the loop body run for a file after such a skip
BodyAfterCapSkip ==
    /\ phase = "files"
    /\ scan.next <= Len(scan.selected_files)
    /\ CapSkips # {}

\* C27: once a file of a scan has been skipped with total_byte_cap_reached,
\* the loop body run for each later file fetches nothing, leaves total_bytes
\* and the analysed files as they are and records that file as skipped with
\* the same reason, and the result reports the unchanged total; and in a scan
\* under two positive byte budgets no file is skipped with
\* byte_budget_exhausted.
C27_AfterBudget ==
    /\ [][BodyAfterCapSkip =>
             /\ scan'.skipped_files = Append(scan.skipped_files,
                                             [path |-> scan.selected_files[scan.next],
                                              reason |-> "total_byte_cap_reached"])
             /\ scan'.fetches = scan.fetches
             /\ scan'.total_bytes = scan.total_bytes
             /\ scan'.file_results = scan.file_results
             /\ scan'.next = scan.next + 1]_vars
    /\ [](InFileLoop =>
             /\ \A i \in CapSkips, j \in 1..(scan.next - 1) :
                   j > i => /\ j \in CapSkips
                            /\ scan.selected_files[j] \notin AnalysedPaths
                            /\ \A k \in 1..Len(scan.fetches) : scan.fetches[k].path # scan.selected_files[j]
             /\ CapSkips # {} => scan.total_bytes >= MAX_TOTAL_FETCH_BYTES
             /\ (MAX_TOTAL_FETCH_BYTES > 0 /\ MAX_FILE_FETCH_BYTES > 0) =>
                   \A path \in Items(scan.selected_files) : ~SkippedWith(path, "byte_budget_exhausted"))
    /\ [](ScanDone => job.result.github.fetched_bytes = scan.total_bytes)

\* C27 witness: a finished scan under positive budgets in which one analysed
\* file used up the total budget and the two files after it were skipped for
\* it, the second of them after the first.
C27_Witness ==
    /\ ScanDone
    /\ MAX_TOTAL_FETCH_BYTES > 0 /\ MAX_FILE_FETCH_BYTES > 0
    /\ Cardinality(CapSkips) = 2
    /\ Len(scan.file_results) = 1
    /\ job.result.github.fetched_bytes = MAX_TOTAL_FETCH_BYTES
    /\ Len(scan.fetches) = 1


(***************************************************************************)
(* The life of a job.                                                      *)
(***************************************************************************)
\* the status of the job record, absent before the record is written
StatusOf(hashes, job_id) ==
    IF job_id \in DOMAIN hashes THEN hashes[job_id].status ELSE "absent"

StatusMoves ==
    {<<"absent", "queued">>, <<"queued", "running">>, <<"running", "done">>, <<"running", "error">>}

\* the ids the workers have taken from the queue
PoppedIds == {procs.popped[k].job_id : k \in 1..Len(procs.popped)}

\* C28: the status of a job record only moves from queued to running and
\* from running to done or to error; a record with status done has a result
\* and no error, a record with status error has an error and no result, and
\* neither changes again; and, the workers being alive and the calls of the
\* analysis returning or raising, every id a worker has taken from the queue
\* leads to a record with status done or error.
C28_LifeCycle ==
    /\ [][\A job_id \in JobIds :
             LET before == StatusOf(redis.hashes, job_id)
                 after == StatusOf(redis'.hashes, job_id)
             IN  /\ before # after => <<before, after>> \in StatusMoves
                 /\ before \in {"done", "error"} => HashAt(job_id)' = HashAt(job_id)]_vars
    /\ [](\A job_id \in DOMAIN redis.hashes :
             LET record == redis.hashes[job_id]
             IN  /\ record.status \in {"queued", "running", "done", "error"}
                 /\ record.status = "done" <=> "result" \in DOMAIN record
                 /\ record.status = "error" <=> "error" \in DOMAIN record)
    /\ \A job_id \in JobIds :
          (job_id \in PoppedIds) ~> (StatusOf(redis.hashes, job_id) \in {"done", "error"})

\* C28 witness: all three jobs have been taken from the queue; one has ended
\* with a result, one with an error, and one is running.
C28_Witness ==
    /\ Len(procs.popped) = 3
    /\ \E a, b, c \in PoppedIds :
          /\ HashAt(a).status = "done" /\ "result" \in DOMAIN HashAt(a)
          /\ HashAt(b).status = "error" /\ "error" \in DOMAIN HashAt(b)
          /\ HashAt(c).status = "running"


(***************************************************************************)
(* What a worker finds under a dequeued id.                                *)
(***************************************************************************)
\* the request that was given this id
RequestOf(job_id) ==
    CHOOSE q \in Requests : "job_id" \in DOMAIN procs.api[q] /\ procs.api[q].job_id = job_id

Issued(job_id) == \E q \in Requests : "job_id" \in DOMAIN procs.api[q] /\ procs.api[q].job_id = job_id

PoppedSeq == [k \in 1..Len(procs.popped) |-> procs.popped[k].job_id]

\* C29: every id in the queue or taken from it has a job record holding the
\* language, code, mode and context of the request it was issued for, with
\* status queued while it is in the queue; a worker in run_one works on the
\* language, code, mode and context of that request; and the ids are taken
\* from the queue in the order they were put in.
C29_RecordBeforeQueue ==
    /\ \A job_id \in Items(redis.queue) \cup PoppedIds :
          /\ Issued(job_id)
          /\ job_id \in DOMAIN redis.hashes
          /\ LET record == HashAt(job_id)
                 asked == Submission(RequestOf(job_id))
             IN  /\ record.language = asked.language
                 /\ record.code = asked.code
                 /\ record.mode = asked.mode
                 /\ json_loads(record.context) = asked.context
                 /\ job_id \in Items(redis.queue) => record.status = "queued"
    /\ \A w \in Workers :
          procs.workers[w].pc = "analysis" =>
              LET asked == Submission(RequestOf(procs.workers[w].job_id))
              IN  /\ procs.workers[w].language = Lower(asked.language)
                  /\ procs.workers[w].code = asked.code
                  /\ procs.workers[w].mode = asked.mode
                  /\ procs.workers[w].context = asked.context
    /\ Len(PoppedSeq) <= Len(procs.pushed)
    /\ PoppedSeq = SubSeq(procs.pushed, 1, Len(PoppedSeq))
    /\ NoTwoEqual(procs.pushed)

\* C29 witness: the three requests were enqueued in another order than they
\* were received, all three ids have been dequeued, and a worker is analysing
\* the Java code of the second request, which was enqueued first.
C29_Witness ==
    /\ Len(procs.popped) = 3
    /\ RequestOf(procs.pushed[1]) = 2
    /\ RequestOf(procs.pushed[2]) = 3
    /\ \E w \in Workers :
          /\ procs.workers[w].pc = "analysis"
          /\ procs.workers[w].language = "java"
          /\ procs.workers[w].code = "code-2"
          /\ procs.workers[w].context = [source |-> "code", request |-> 2]


(***************************************************************************)
(* The number of LLM reviews of a scan.                                    *)
(***************************************************************************)
\* C30: in the result of a repository scan the number of files with an LLM
\* review is at most the hotspot count the job was configured with, for every
\* count from 0 on: under a count of 0 no LLM call was made and every file
\* has gpt = null.
C30_HotspotBound ==
    ScanDone =>
        /\ Cardinality(ReviewedFiles) <= ConfiguredHotspots
        /\ Len(scan.llm_replies) <= ConfiguredHotspots
        /\ ConfiguredHotspots = 0 =>
              /\ scan.llm_replies = <<>>
              /\ \A k \in 1..Len(job.result.files) : job.result.files[k].gpt = None

====
